---- MODULE Spec2Model ----
(***************************************************************************)
(* GitHub Copilot OAuth2 device flow and credential store of               *)
(* packages/core/src/github-copilot/githubCopilotOAuth2.ts.                *)
(*                                                                         *)
(* JavaScript runs one task at a time: a task is suspended only at an      *)
(* `await`.  Every action below is one resumption of a task: it runs the   *)
(* synchronous code from one await to the next.  Timer callbacks and event *)
(* listeners are tasks of their own and run between those resumptions.     *)
(***************************************************************************)
EXTENDS Integers, Sequences, FiniteSets, TLC

----------------------------------------------------------------------------
(* Bounds of the model *)

MaxTicks == 5        \* the clock stops after this many ticks (device flow)
MaxStoreTicks == 1   \* the same, where the credential store is exercised
MaxFlows == 1        \* device flows started in one behaviour
MaxStoreOps == 3     \* flows and getValidAccessToken calls started, where
                     \* the credential store is exercised
NumCallers == 2      \* concurrent callers of getValidAccessToken
MaxReads == 2        \* reads a response body is delivered in

TickMs == 5 * 1000   \* one tick of the clock, in milliseconds

----------------------------------------------------------------------------
(* Program constants *)

TOKEN_REFRESH_BUFFER_MS == 30 * 1000

DefaultInterval == 5

----------------------------------------------------------------------------
(* What the servers may answer (inputs) *)

\* the servers issue a fresh token every time: the n-th device flow is given
\* the access token gho_n, the k-th call of caller c the Copilot token cop_c_k
GitHubToken(n) == "gho_" \o ToString(n)
CopilotToken(c, k) == "cop_" \o ToString(c) \o "_" \o ToString(k)
\* lifetime of an issued Copilot token, in seconds
Lifetimes == {35, 45}
\* interval and expires_in of a device-code response, in seconds; interval 0
\* stands for a response without an interval
Intervals == {0, 5, 10}
ExpiresIns == {5, 20}
\* the same where the credential store is exercised: a flow of a single poll
StoreIntervals == {5}
StoreExpiresIns == {5}

Callers == 1 .. NumCallers

Null == [null |-> TRUE]
NoToken == "<null>"

VARIABLES
    now,        \* Date.now(), in ms
    file,       \* content of oauth_creds.json: a sequence of tokens, or NoFile
    flow,       \* the running performGitHubCopilotOAuthFlow invocation
    flowRuns,   \* flows started so far
    callers,    \* the getValidAccessToken invocations
    stream,     \* the streamGenerator of one generateContentStream call
    gen         \* one generateContent or generateContentStream call

vars == <<now, file, flow, flowRuns, callers, stream, gen>>

----------------------------------------------------------------------------
(* The credential file: JSON.stringify, fs.writeFile, JSON.parse *)

NoFile == <<[kind |-> "ENOENT", key |-> "", value |-> "", by |-> <<>>]>>

Has(rec, key) == key \in DOMAIN rec

\* A piece of the file's text.  `by` names the saveCredentials call that wrote
\* it; it is no part of the text (history only, nothing in the program reads it).
Brace(kind, by) == [kind |-> kind, key |-> "", value |-> "", by |-> by]
Field(key, value, by) == [kind |-> "field", key |-> key, value |-> value, by |-> by]

\* JSON.stringify(credentials, null, 2): the fields in insertion order between
\* braces
Stringify(rec, by) ==
    <<Brace("{", by)>>
    \o <<Field("access_token", rec.access_token, by)>>
    \o <<Field("created_at", rec.created_at, by)>>
    \o <<Field("updated_at", rec.updated_at, by)>>
    \o (IF Has(rec, "copilot_token")
        THEN <<Field("copilot_token", rec.copilot_token, by)>> ELSE <<>>)
    \o (IF Has(rec, "copilot_expires_at")
        THEN <<Field("copilot_expires_at", rec.copilot_expires_at, by)>>
        ELSE <<>>)
    \o <<Brace("}", by)>>

RECURSIVE ObjectOf(_)
\* the object a sequence of field tokens denotes
ObjectOf(fields) ==
    IF fields = <<>> THEN <<>>
    ELSE LET f == fields[Len(fields)]
         IN  (f.key :> f.value) @@ ObjectOf(SubSeq(fields, 1, Len(fields) - 1))

\* JSON.parse accepts exactly one object: "{", fields, "}" and nothing after
WellFormed(text) ==
    /\ Len(text) >= 2
    /\ text[1].kind = "{"
    /\ text[Len(text)].kind = "}"
    /\ \A i \in 2 .. Len(text) - 1 : text[i].kind = "field"

\* a parser that stops at nothing: it reads the fields of whatever follows "{"
ParseLenient(text) ==
    IF /\ Len(text) >= 2
       /\ text[1].kind = "{"
    THEN ObjectOf(SelectSeq(text, LAMBDA t : t.kind = "field"))
    ELSE Null

\* JSON.parse(data), a SyntaxError being Null
Parse(text) ==
    IF WellFormed(text) THEN ObjectOf(SubSeq(text, 2, Len(text) - 1)) ELSE Null

\* an exception that leaves the called function
Raised == [raised |-> TRUE]

\* readFile and JSON.parse with no try around them
loadCredentialsUncaught(f) ==
    IF f = NoFile \/ ~WellFormed(f) THEN Raised ELSE Parse(f)

\* loadCredentials: readFile and JSON.parse; any failure is null
loadCredentials(f) ==
    IF f = NoFile THEN Null ELSE Parse(f)

\* fs.writeFile opens with O_TRUNC ...
Truncate(f) == <<>>

\* ... and then writes the data at offset 0 of what the file holds by then
\* (another writer may have written in between).  A file unlinked since the
\* open is written to no more: the data goes to the orphaned inode.
WriteData(f, data, orphaned) ==
    IF orphaned THEN f
    ELSE data \o SubSeq(f, Len(data) + 1, Len(f))

\* fs.unlink: the writers that hold the file open keep an orphan
Unlinked(task) ==
    IF task.pc = "save_write"
    THEN [task EXCEPT !.orphaned = TRUE, !.raced = TRUE]
    ELSE task

\* another task wrote the file while this one holds it open (history)
Overwritten(task) ==
    IF task.pc = "save_write" THEN [task EXCEPT !.raced = TRUE] ELSE task

----------------------------------------------------------------------------
(* performGitHubCopilotOAuthFlow *)

IdleFlow ==
    [pc |-> "idle",
     suppressed |-> FALSE,      \* config.isBrowserLaunchSuppressed()
     listener |-> FALSE,        \* cancelHandler is registered for AuthCancel
     timerSet |-> FALSE,        \* timeoutId has been assigned
     timerArmed |-> FALSE,      \* the deadline timer is pending
     timerDue |-> 0,
     sleepDue |-> 0,
     interval |-> 0,            \* deviceAuth.interval
     expires_in |-> 0,          \* deviceAuth.expires_in
     attempts |-> 0,
     maxAttempts |-> 0,
     toSave |-> Null,           \* the record pollForAccessToken is saving
     orphaned |-> FALSE,        \* the file was unlinked since it was opened
     raced |-> FALSE,           \* ... or unlinked or written by another task
     result |-> "none",
     trigger |-> FALSE,         \* what triggerOAuthFlow returns for this flow
     events |-> <<>>,           \* what the flow emitted, in order
     \* history
     thrown |-> "none",         \* the await whose exception ended the flow
     openThrew |-> FALSE,       \* `await open(...)` threw
     polls |-> 0,               \* pollForAccessToken calls started
     lastPoll |-> "none",       \* what the last poll was answered with
     allPending |-> TRUE,       \* every poll so far answered 'pending'
     cancelSeen |-> FALSE,      \* an AuthCancel was emitted during the flow
     pollsAtCancel |-> 0,
     eventsAtCancel |-> 0,   \* how many events it had emitted by then
     firedInFlight |-> FALSE,   \* the deadline fired before the loop concluded
     listenerOffs |-> 0,        \* removals of a registered listener
     timerClears |-> 0,         \* clearTimeout calls on a pending timer
     cleanups |-> 0]            \* cleanup() calls

Emit(f, event) == [f EXCEPT !.events = Append(@, event)]

cleanupNoClear(f) ==
    [f EXCEPT !.listener = FALSE,
              !.listenerOffs = @ + (IF f.listener THEN 1 ELSE 0),
              !.cleanups = @ + 1]

\* cleanup(): off(AuthCancel, cancelHandler); if (timeoutId) clearTimeout
cleanup(f) ==
    [f EXCEPT !.listener = FALSE,
              !.listenerOffs = @ + (IF f.listener THEN 1 ELSE 0),
              !.timerArmed = IF f.timerSet THEN FALSE ELSE @,
              !.timerClears = @ + (IF f.timerSet /\ f.timerArmed THEN 1 ELSE 0),
              !.cleanups = @ + 1]

\* true for every flow that did not fail
triggerOAuthFlowNotFailed(f) ==
    IF f.pc = "threw" THEN FALSE ELSE f.result # "failed"

\* triggerOAuthFlow: `return result === 'complete'`, or false from its catch
triggerOAuthFlow(f) ==
    IF f.pc = "threw" THEN FALSE ELSE f.result = "complete"

\* `cleanup(); return r;` inside the try, then the finally block's cleanup();
\* the caller's continuation runs next
Return(f, r) ==
    LET g == [cleanup(cleanup(f)) EXCEPT !.pc = "returned", !.result = r,
                                         !.timerDue = 0, !.sleepDue = 0]
    IN  [g EXCEPT !.trigger = triggerOAuthFlow(g)]

\* no outer catch: the finally block's cleanup(), and the exception leaves
\* the flow
FlowThrewUncaught(f, source) ==
    LET g == [cleanup(f) EXCEPT !.pc = "threw", !.thrown = source,
                                !.timerDue = 0, !.sleepDue = 0]
    IN  [g EXCEPT !.trigger = triggerOAuthFlow(g)]

\* the outer catch: emit AuthError, cleanup(), return 'failed'
FlowThrew(f, source) ==
    Return(Emit([f EXCEPT !.thrown = source], "auth_error"), "failed")

\* Math.ceil in place of Math.floor
MaxAttemptsCeil(expires_in, interval) ==
    (expires_in * 1000 + interval * 1000 - 1) \div (interval * 1000)

\* Math.floor(timeoutMs / pollInterval)
MaxAttempts(expires_in, interval) ==
    (expires_in * 1000) \div (interval * 1000)

\* a loop that leaves its end to the deadline timer: with the attempts used
\* up it waits again instead of returning
LoopHeadNoExit(f) ==
    IF f.attempts < f.maxAttempts
    THEN [Emit(f, "progress:polling") EXCEPT !.pc = "poll_http", !.polls = @ + 1]
    ELSE [f EXCEPT !.pc = "sleep"]

\* the head of `while (attempts < maxAttempts)`: emit the progress event and
\* call pollForAccessToken (its fetch is the next await), or leave the loop
LoopHead(f) ==
    IF f.attempts < f.maxAttempts
    THEN [Emit(f, "progress:polling") EXCEPT !.pc = "poll_http", !.polls = @ + 1]
    ELSE Return(Emit(f, "progress:timeout"), "timeout")

\* the polling loop started with no timer set
PollBeforeArm(f, t) ==
    LoopHead([f EXCEPT !.attempts = 0,
                       !.maxAttempts = MaxAttempts(f.expires_in, f.interval)])

\* setTimeout(..., timeoutMs) and the start of the polling loop
ArmAndPoll(f, t) ==
    LoopHead([f EXCEPT !.timerSet = TRUE,
                       !.timerArmed = TRUE,
                       !.timerDue = t + f.expires_in * 1000,
                       !.attempts = 0,
                       !.maxAttempts = MaxAttempts(f.expires_in, f.interval)])

\* String.prototype.includes on a text held as a sequence of pieces
Includes(text, pattern) ==
    \E i \in 1 .. Len(text) - Len(pattern) + 1 :
        SubSeq(text, i, i + Len(pattern) - 1) = pattern

\* what the token endpoint may answer to one poll
PollAnswers ==
    [kind : {"token"}]
    \cup [kind : {"error"},
          error : {"authorization_pending", "slow_down", "expired_token"}]
    \cup [kind : {"status"}, status : {429}]
    \cup [kind : {"throw"},
          message : {<<"fetch failed">>, <<"too many requests">>}]

\* the inner catch of the polling loop
PollThrew(f, message) ==
    IF Includes(message, <<"rate limit">>)
       \/ Includes(message, <<"too many requests">>)
    THEN Return(Emit(f, "progress:error"), "rate_limited")
    ELSE Return(Emit(f, "progress:error"), "failed")

\* the loop body after `result = await client.pollForAccessToken(...)`
PollReturned(f, result, t) ==
    CASE result = "complete" ->
            Return(Emit(Emit([f EXCEPT !.toSave = Null], "progress:success"),
                        "complete"), "complete")
      [] result = "failed" ->
            Return(Emit([f EXCEPT !.allPending = FALSE], "progress:error"),
                   "failed")
      [] OTHER ->
            LET g == [f EXCEPT !.attempts = @ + 1]
            IN  IF g.attempts < g.maxAttempts
                THEN [g EXCEPT !.pc = "sleep",
                               !.sleepDue = t + g.interval * 1000]
                ELSE LoopHead(g)

Awaiting(f) ==
    f.pc \in {"device_http", "open", "poll_http", "save_open", "save_write",
              "sleep"}

\* performGitHubCopilotOAuthFlow is called: once(AuthCancel, cancelHandler),
\* then the device-code request is sent
FlowStart(suppressions, maxFlows) ==
    /\ flow.pc \in {"idle", "returned"}
    /\ flowRuns < maxFlows
    /\ \E suppressed \in suppressions :
          flow' = [IdleFlow EXCEPT !.pc = "device_http",
                                   !.suppressed = suppressed,
                                   !.listener = TRUE]
    /\ flowRuns' = flowRuns + 1
    /\ UNCHANGED <<now, file, callers, stream, gen>>

\* startDeviceAuthorization returns: AuthUri is emitted and the browser is
\* opened (an await), or the timer is armed and the first poll sent
DeviceCodeIssued(intervals, expiries) ==
    /\ flow.pc = "device_http"
    /\ \E interval \in intervals, expires_in \in expiries :
          LET f == Emit([flow EXCEPT
                           !.interval = IF interval = 0 THEN DefaultInterval
                                        ELSE interval,
                           !.expires_in = expires_in], "auth_uri")
          IN  flow' = IF f.suppressed THEN ArmAndPoll(f, now)
                      ELSE [f EXCEPT !.pc = "open"]
    /\ UNCHANGED <<now, file, flowRuns, callers, stream, gen>>

\* the failure noticed only after AuthUri was emitted
DeviceCodeFailedLate ==
    /\ flow.pc = "device_http"
    /\ flow' = FlowThrew(Emit(flow, "auth_uri"), "device")
    /\ UNCHANGED <<now, file, flowRuns, callers, stream, gen>>

\* startDeviceAuthorization throws: the outer catch
DeviceCodeFailed ==
    /\ flow.pc = "device_http"
    /\ flow' = FlowThrew(flow, "device")
    /\ UNCHANGED <<now, file, flowRuns, callers, stream, gen>>

\* `await open(uri)` returns or throws: either way the flow goes on (the
\* catch around it shows the fallback message)
BrowserOpened ==
    /\ flow.pc = "open"
    /\ \E threw \in BOOLEAN :
          flow' = ArmAndPoll([flow EXCEPT !.openThrew = threw], now)
    /\ UNCHANGED <<now, file, flowRuns, callers, stream, gen>>

\* a record with a Copilot token in it
AccessTokenRecordWithCopilot(token, t) ==
    [access_token |-> token, created_at |-> t, updated_at |-> t,
     copilot_token |-> token]

\* `credentials` of pollForAccessToken
AccessTokenRecord(token, t) ==
    [access_token |-> token, created_at |-> t, updated_at |-> t]

\* what an answer of the token endpoint says: the token, pending, a refusal
\* for rate limiting (the slow_down error, HTTP 429, or an exception that
\* says so), or another failure
AnswerClass(a) ==
    CASE a.kind = "token" -> "token"
      [] a.kind = "error" /\ a.error = "authorization_pending" -> "pending"
      [] a.kind = "error" /\ a.error = "slow_down" -> "rate_limit"
      [] a.kind = "status" /\ a.status = 429 -> "rate_limit"
      [] a.kind = "throw" /\ (\/ Includes(a.message, <<"rate limit">>)
                              \/ Includes(a.message, <<"too many requests">>))
            -> "rate_limit"
      [] OTHER -> "failure"

\* the poll's fetch returns (pollForAccessToken up to its next await)
PollAnswered(answers) ==
    /\ flow.pc = "poll_http"
    /\ \E a \in answers :
          LET f == [flow EXCEPT !.lastPoll = AnswerClass(a)]
          IN  flow' =
                CASE a.kind = "token" ->
                        [f EXCEPT !.pc = "save_open",
                                  !.allPending = FALSE,
                                  !.toSave =
                                      AccessTokenRecord(GitHubToken(flowRuns),
                                                        now)]
                  [] a.kind = "error" /\ a.error = "authorization_pending" ->
                        PollReturned(f, "pending", now)
                  [] a.kind = "throw" ->
                        PollThrew([f EXCEPT !.allPending = FALSE,
                                            !.thrown = "poll"], a.message)
                  [] OTHER -> PollReturned(f, "failed", now)
    /\ UNCHANGED <<now, file, flowRuns, callers, stream, gen>>

\* saveCredentials in pollForAccessToken: writeFile opens the file
PollSaveOpen ==
    /\ flow.pc = "save_open"
    /\ file' = Truncate(file)
    /\ flow' = [flow EXCEPT !.pc = "save_write", !.orphaned = FALSE,
                            !.raced = FALSE]
    /\ UNCHANGED <<now, flowRuns, callers, stream, gen>>

\* ... and writes it (chmod follows); pollForAccessToken returns 'complete'
PollSaveWrite ==
    /\ flow.pc = "save_write"
    /\ file' = WriteData(file, Stringify(flow.toSave, <<0, flowRuns>>), flow.orphaned)
    /\ flow' = PollReturned(flow, "complete", now)
    /\ callers' = [c \in Callers |-> Overwritten(callers[c])]
    /\ UNCHANGED <<now, flowRuns, stream, gen>>

\* mkdir, open, write or chmod fails: saveCredentials throws out of
\* pollForAccessToken into the inner catch
PollSaveFailed ==
    /\ flow.pc \in {"save_open", "save_write"}
    /\ flow' = PollThrew([flow EXCEPT !.toSave = Null, !.thrown = "save"],
                         <<"ENOSPC: no space left on device, write">>)
    /\ UNCHANGED <<now, file, flowRuns, callers, stream, gen>>

\* the interval sleep is over
SleepDone ==
    /\ flow.pc = "sleep"
    /\ now >= flow.sleepDue
    /\ flow' = LoopHead(flow)
    /\ UNCHANGED <<now, file, flowRuns, callers, stream, gen>>

\* the deadline timer's callback
DeadlineFired ==
    /\ Awaiting(flow)
    /\ flow.timerArmed
    /\ now >= flow.timerDue
    /\ flow' = [Emit(flow, "progress:timeout") EXCEPT !.timerArmed = FALSE,
                                                      !.firedInFlight = TRUE]
    /\ UNCHANGED <<now, file, flowRuns, callers, stream, gen>>

\* somebody emits AuthCancel: the `once` wrapper removes itself and runs
\* cancelHandler, which is cleanup()
CancelEmitted ==
    /\ Awaiting(flow)
    /\ flow.listener
    /\ flow' = [cleanup([flow EXCEPT !.listener = FALSE,
                                     !.listenerOffs = @ + 1])
                  EXCEPT !.cancelSeen = TRUE, !.pollsAtCancel = flow.polls,
                         !.eventsAtCancel = Len(flow.events)]
    /\ UNCHANGED <<now, file, flowRuns, callers, stream, gen>>

Tick(maxTicks) ==
    /\ now + TickMs <= maxTicks * TickMs
    /\ now' = now + TickMs
    /\ UNCHANGED <<file, flow, flowRuns, callers, stream, gen>>

\* the clock reaches the time the interval sleep's setTimeout was set for
SleepElapses ==
    /\ flow.pc = "sleep"
    /\ now < flow.sleepDue
    /\ now' = flow.sleepDue
    /\ UNCHANGED <<file, flow, flowRuns, callers, stream, gen>>

----------------------------------------------------------------------------
(* useGitHubCopilotAuth: the auth state of the UI *)

\* the state useState starts with, and cancelGitHubCopilotAuth sets
IdleAuthState ==
    [isGitHubCopilotAuthenticating |-> FALSE,
     deviceAuth |-> "null",
     authStatus |-> "idle",
     authMessage |-> "null"]

\* handleAuthUri, handleAuthProgress, handleAuthComplete, handleAuthError:
\* the state setAuthState makes of the previous one for an event of the flow
\* (the event's name stands for the message it carries)
HandleEvent(state, event) ==
    CASE event = "auth_uri" ->
            [state EXCEPT !.deviceAuth = "deviceAuth",
                          !.authStatus = "polling"]
      [] event = "complete" ->
            [state EXCEPT !.isGitHubCopilotAuthenticating = FALSE,
                          !.authStatus = "success",
                          !.authMessage = "Authentication completed successfully!"]
      [] event = "auth_error" ->
            [state EXCEPT !.isGitHubCopilotAuthenticating = FALSE,
                          !.authStatus = "error",
                          !.authMessage = event]
      [] event = "progress:polling" ->
            [state EXCEPT !.authStatus = "polling", !.authMessage = event]
      [] event = "progress:success" ->
            [state EXCEPT !.authStatus = "success", !.authMessage = event]
      [] event = "progress:timeout" ->
            [state EXCEPT !.authStatus = "timeout", !.authMessage = event]
      [] OTHER ->
            [state EXCEPT !.authStatus = "error", !.authMessage = event]

RECURSIVE Delivered(_, _)
\* the state after the subscribed handlers have run for the events, in order
Delivered(state, events) ==
    IF events = <<>> THEN state
    ELSE Delivered(HandleEvent(state, Head(events)), Tail(events))

\* the auth state once cancelGitHubCopilotAuth has emitted AuthCancel and set
\* the idle state, and the handlers have run for what the flow emitted since
AuthStateSinceCancel(f) ==
    Delivered(IdleAuthState,
              SubSeq(f.events, f.eventsAtCancel + 1, Len(f.events)))

----------------------------------------------------------------------------
(* GitHubCopilotOAuth2Client.getValidAccessToken, clearCredentials *)

IdleCaller ==
    [pc |-> "idle",
     calls |-> 0,
     creds |-> Null,       \* what loadCredentials returned
     issued |-> Null,      \* the GitHubCopilotTokenResponse
     toSave |-> Null,      \* updatedCredentials
     orphaned |-> FALSE,   \* the file was unlinked since it was opened
     raced |-> FALSE,      \* ... or unlinked or written by another task
     result |-> "none",
     value |-> Null,       \* what loadCredentials() returned to its caller
     valid |-> FALSE,      \* what hasValidCredentials() returned
     \* history of the call
     outcome |-> "none",
     exchanges |-> 0,      \* getCopilotToken calls
     writes |-> 0,         \* completed writes of the file
     unlinks |-> 0]        \* fs.unlink calls

\* `credentials?.access_token` is truthy
HasAccessToken(creds) ==
    /\ creds # Null
    /\ Has(creds, "access_token")
    /\ creds.access_token # ""

\* `credentials.copilot_token && credentials.copilot_expires_at` are truthy
HasCopilotToken(creds) ==
    /\ Has(creds, "copilot_token")
    /\ creds.copilot_token # ""
    /\ Has(creds, "copilot_expires_at")
    /\ creds.copilot_expires_at # 0

\* the buffer, already in milliseconds, converted once more
NotExpiringSoonScaled(creds, t) ==
    creds.copilot_expires_at > t + TOKEN_REFRESH_BUFFER_MS * 1000

\* copilot_expires_at > now + TOKEN_REFRESH_BUFFER_MS
NotExpiringSoon(creds, t) ==
    creds.copilot_expires_at > t + TOKEN_REFRESH_BUFFER_MS

RECURSIVE Digits(_)
\* a number as the template literal prints it, digit by digit
Digits(n) ==
    IF n < 10 THEN <<ToString(n)>>
    ELSE Digits(n \div 10) \o <<ToString(n % 10)>>

StatusText(status) ==
    CASE status = 401 -> <<"Unauthorized">>
      [] status = 403 -> <<"Forbidden">>
      [] status = 404 -> <<"Not Found">>
      [] OTHER -> <<"Internal Server Error">>

\* the message of the Error getCopilotToken throws on a non-ok response
CopilotErrorMessage(status, errorText) ==
    <<"Failed to get Copilot token: ">> \o Digits(status) \o <<" ">>
    \o StatusText(status)
    \o (CASE status = 401 ->
                <<" - GitHub OAuth token is invalid or expired">>
           [] status = 403 ->
                <<" - GitHub account does not have Copilot access or insufficient permissions">>
           [] status = 404 -> <<" - Copilot API endpoint not found">>
           [] OTHER -> <<>>)
    \o (IF errorText # <<>> THEN <<" - Response: ">> \o errorText ELSE <<>>)

\* the test made on the wrong status
IsExpiredTokenError403(message) == Includes(message, <<"4", "0", "3">>)

\* `error.message.includes('401')`
IsExpiredTokenError(message) == Includes(message, <<"4", "0", "1">>)

\* bodies of a non-ok answer of the Copilot token endpoint
ErrorTexts ==
    {<<>>, <<"{\"message\":\"Bad credentials\"}">>,
     <<"{\"request_id\":\"", "9", "4", "0", "1", "7", "\"}">>}

\* what the Copilot token endpoint, or the network, may answer
ExchangeAnswers ==
    [kind : {"token"}, lifetime : Lifetimes]
    \cup [kind : {"status"}, status : {401, 403, 404, 500}, text : ErrorTexts]
    \cup [kind : {"throw"}, message : {<<"fetch failed">>}]
    \cup [kind : {"null"}]

\* `return token`: the locals of the call are gone
Returned(task, token, outcome) ==
    [IdleCaller EXCEPT !.pc = "returned",
                       !.calls = task.calls,
                       !.result = token,
                       !.outcome = outcome,
                       !.exchanges = task.exchanges,
                       !.writes = task.writes,
                       !.unlinks = task.unlinks]

RECURSIVE CallsUpTo(_)
\* getValidAccessToken calls started so far by callers 1 .. n
CallsUpTo(n) == IF n = 0 THEN 0 ELSE callers[n].calls + CallsUpTo(n - 1)

\* device flows and getValidAccessToken calls started so far
Started == flowRuns + CallsUpTo(NumCallers)

\* getValidAccessToken is called and loadCredentials has read the file: no
\* credentials, the cached Copilot token, or the exchange request is sent
TokenCall(c) ==
    /\ callers[c].pc \in {"idle", "returned"}
    /\ Started < MaxStoreOps
    /\ LET creds == loadCredentials(file)
           task == [IdleCaller EXCEPT !.calls = callers[c].calls + 1,
                                      !.creds = creds]
       IN  callers' = [callers EXCEPT ![c] =
             IF ~HasAccessToken(creds)
             THEN Returned(task, NoToken, "no_credentials")
             ELSE IF HasCopilotToken(creds) /\ NotExpiringSoon(creds, now)
             THEN Returned(task, creds.copilot_token, "cached")
             ELSE [task EXCEPT !.pc = "exchange", !.exchanges = 1]]
    /\ UNCHANGED <<now, file, flow, flowRuns, stream, gen>>

\* the expiry left out of the merge
UpdatedCredentialsNoExpiry(creds, issued, t) ==
    ("copilot_token" :> issued.token) @@ ("updated_at" :> t) @@ creds

\* the record rebuilt from the token alone, not spread from the loaded one
UpdatedCredentialsRebuilt(creds, issued, t) ==
    ("copilot_token" :> issued.token)
    @@ ("copilot_expires_at" :> issued.expires_at * 1000)
    @@ ("updated_at" :> t)
    @@ ("created_at" :> t)
    @@ creds

\* updatedCredentials: the loaded record with the new token merged in
UpdatedCredentials(creds, issued, t) ==
    ("copilot_token" :> issued.token)
    @@ ("copilot_expires_at" :> issued.expires_at * 1000)
    @@ ("updated_at" :> t)
    @@ creds

\* no catch around the refresh: the exception leaves getValidAccessToken
RefreshThrewUncaught(task, message, outcome) ==
    [Returned(task, "none", outcome) EXCEPT !.pc = "raised"]

\* the catch of getValidAccessToken: clearCredentials() if the message names
\* 401, and `return null` either way
RefreshThrew(task, message, outcome) ==
    IF IsExpiredTokenError(message)
    THEN [task EXCEPT !.pc = "unlink", !.outcome = outcome]
    ELSE Returned(task, NoToken, outcome)

\* getCopilotToken returns or throws
ExchangeAnswered(c) ==
    /\ callers[c].pc = "exchange"
    /\ \E a \in ExchangeAnswers :
         LET task == callers[c]
             issued == [token |-> CopilotToken(c, task.calls),
                        expires_at |-> now \div 1000 + a.lifetime]
         IN  callers' = [callers EXCEPT ![c] =
               CASE a.kind = "token" ->
                      [task EXCEPT !.pc = "save_open",
                                   !.issued = issued,
                                   !.outcome = "exchanged",
                                   !.toSave =
                                     UpdatedCredentials(task.creds, issued, now)]
                 [] a.kind = "null" ->
                      Returned(task, NoToken, "null_response")
                 [] a.kind = "status" ->
                      RefreshThrew(task,
                                   CopilotErrorMessage(a.status, a.text),
                                   ToString(a.status))
                 [] OTHER -> RefreshThrew(task, a.message, "threw")]
    /\ UNCHANGED <<now, file, flow, flowRuns, stream, gen>>

\* saveCredentials(updatedCredentials): writeFile opens the file ...
CallerSaveOpen(c) ==
    /\ callers[c].pc = "save_open"
    /\ file' = Truncate(file)
    /\ callers' = [callers EXCEPT ![c].pc = "save_write",
                                  ![c].orphaned = FALSE,
                                  ![c].raced = FALSE]
    /\ UNCHANGED <<now, flow, flowRuns, stream, gen>>

\* ... and writes it; getValidAccessToken returns the new token
CallerSaveWrite(c) ==
    /\ callers[c].pc = "save_write"
    /\ file' = WriteData(file,
                         Stringify(callers[c].toSave, <<c, callers[c].calls>>),
                         callers[c].orphaned)
    /\ callers' = [d \in Callers |->
          IF d = c
          THEN Returned([callers[c] EXCEPT !.writes = @ + 1],
                        callers[c].issued.token, "refreshed")
          ELSE Overwritten(callers[d])]
    /\ flow' = Overwritten(flow)
    /\ UNCHANGED <<now, flowRuns, stream, gen>>

\* saveCredentials throws into the catch: the message names no 401
CallerSaveFailed(c) ==
    /\ callers[c].pc \in {"save_open", "save_write"}
    /\ callers' = [callers EXCEPT ![c] =
          RefreshThrew(callers[c],
                       <<"ENOSPC: no space left on device, write">>,
                       "save_failed")]
    /\ UNCHANGED <<now, file, flow, flowRuns, stream, gen>>

\* clearCredentials() in the catch: fs.unlink, then `return null`
CallerUnlink(c) ==
    /\ callers[c].pc = "unlink"
    /\ file' = NoFile
    /\ flow' = Unlinked(flow)
    /\ callers' = [d \in Callers |->
          IF d = c
          THEN Returned([callers[c] EXCEPT !.unlinks = @ + 1], NoToken,
                        callers[c].outcome)
          ELSE Unlinked(callers[d])]
    /\ UNCHANGED <<now, flowRuns, stream, gen>>

\* clearCredentials called from outside: fs.unlink, a missing file is fine
ClearCredentials ==
    /\ file' = NoFile
    /\ flow' = Unlinked(flow)
    /\ callers' = [d \in Callers |-> Unlinked(callers[d])]
    /\ UNCHANGED <<now, flowRuns, stream, gen>>

----------------------------------------------------------------------------
(* hasValidCredentials, loadCredentials and clearCredentials, called from    *)
(* outside                                                                   *)

\* the comparison made with >= in place of >
hasValidCredentialsAtLeast(creds, t) ==
    IF ~HasAccessToken(creds) THEN FALSE
    ELSE IF HasCopilotToken(creds)
    THEN creds.copilot_expires_at >= t + TOKEN_REFRESH_BUFFER_MS
    ELSE TRUE

\* hasValidCredentials, after `await this.loadCredentials()`
hasValidCredentials(creds, t) ==
    IF ~HasAccessToken(creds) THEN FALSE
    ELSE IF HasCopilotToken(creds) THEN NotExpiringSoon(creds, t)
    ELSE TRUE

\* fs.unlink rejects with ENOENT when there is no file
UnlinkFails(f) == f = NoFile

\* fs.unlink with no try around it
clearCredentialsUncaught(f) ==
    [file |-> NoFile, raised |-> UnlinkFails(f)]

\* clearCredentials: whatever fs.unlink throws is caught and dropped
clearCredentials(f) ==
    [file |-> NoFile, raised |-> FALSE]

\* `return value` of a call that returns no token
ReturnedValue(task, value, outcome) ==
    [Returned(task, "none", outcome) EXCEPT !.value = value]

\* hasValidCredentials() is called and returns
HasValidCall(c) ==
    /\ callers[c].pc \in {"idle", "returned"}
    /\ Started < MaxStoreOps
    /\ LET task == [IdleCaller EXCEPT !.calls = callers[c].calls + 1]
           creds == loadCredentials(file)
       IN  callers' = [callers EXCEPT ![c] =
             IF creds = Raised
             THEN ReturnedValue(task, Null, "has_valid_raised")
             ELSE [ReturnedValue(task, Null, "has_valid")
                     EXCEPT !.valid = hasValidCredentials(creds, now)]]
    /\ UNCHANGED <<now, file, flow, flowRuns, stream, gen>>

\* loadCredentials() is called and returns
LoadCall(c) ==
    /\ callers[c].pc \in {"idle", "returned"}
    /\ Started < MaxStoreOps
    /\ LET task == [IdleCaller EXCEPT !.calls = callers[c].calls + 1]
           creds == loadCredentials(file)
       IN  callers' = [callers EXCEPT ![c] =
             IF creds = Raised THEN ReturnedValue(task, Null, "load_raised")
             ELSE ReturnedValue(task, creds, "loaded")]
    /\ UNCHANGED <<now, file, flow, flowRuns, stream, gen>>

\* clearCredentials() is called and returns
ClearCall(c) ==
    /\ callers[c].pc \in {"idle", "returned"}
    /\ Started < MaxStoreOps
    /\ LET task == [IdleCaller EXCEPT !.calls = callers[c].calls + 1,
                                      !.unlinks = 1]
           cleared == clearCredentials(file)
       IN  /\ file' = cleared.file
           /\ callers' = [d \in Callers |->
                 IF d = c
                 THEN ReturnedValue(task, Null,
                        IF cleared.raised THEN "clear_raised"
                        ELSE "cleared")
                 ELSE Unlinked(callers[d])]
    /\ flow' = Unlinked(flow)
    /\ UNCHANGED <<now, flowRuns, stream, gen>>

\* a record a device flow of an earlier session stored
StoredPrimary == AccessTokenRecord(GitHubToken(1), 0)

\* expiries (s) of the Copilot token of a stored record
StoredExpiries == {30, 35, 40}

\* what the credential file may hold when the client is constructed: nothing,
\* what a save wrote, or what racing saves left (the file cut by one save's
\* open, a device flow's record written over a longer refreshed one)
StoredFiles ==
    LET refreshed(e) ==
            Stringify(UpdatedCredentials(StoredPrimary,
                        [token |-> CopilotToken(1, 1), expires_at |-> e], 0),
                      <<1, 1>>)
    IN  {NoFile, Truncate(NoFile), Stringify(StoredPrimary, <<0, 1>>)}
        \cup {refreshed(e) : e \in StoredExpiries}
        \cup {WriteData(refreshed(e), Stringify(StoredPrimary, <<0, 1>>), FALSE) :
                 e \in StoredExpiries}

----------------------------------------------------------------------------
(* GitHubCopilotContentGenerator.generateContentStream: streamGenerator     *)
(*                                                                           *)
(* A text is a sequence of pieces, the unit at which a read may end.  The    *)
(* response body is a sequence of bytes: one byte per piece, but for the     *)
(* two-byte character.                                                       *)

NL == "\n"

DataPrefix == <<"d", "a", "t", "a", ":", " ">>

DoneData == <<"[", "D", "O", "N", "E", "]">>

\* the two UTF-8 bytes of the character U+00E9, and U+FFFD
LeadByte == "0xC3"
ContinuationByte == "0xA9"
TwoByteChar == "e-acute"
ReplacementChar == "U+FFFD"

\* the pieces of the JSON text of a GitHubCopilotStreamResponse around the
\* characters of choices[0].delta.content, and a response with no choice
OpenChoice == "{\"id\":\"1\",\"choices\":[{\"index\":0,\"delta\":"
OpenContent == "{\"content\":\""
CloseContent == "\"}"
CloseChoice == "}]}"
NoChoices == "{\"id\":\"1\",\"choices\":[]}"
\* a chunk whose delta has a role and no content
RoleOnly == "{\"id\":\"1\",\"choices\":[{\"index\":0,\"delta\":{\"role\":\"assistant\"}}]}"

ContentChars == {"h", "i", "a", "b", TwoByteChar}

\* the concatenation of the sequences parts[lo], ..., parts[hi]
RECURSIVE Flatten(_, _, _)
Flatten(parts, lo, hi) ==
    IF lo > hi THEN <<>>
    ELSE IF lo = hi THEN parts[lo]
    ELSE LET mid == (lo + hi) \div 2
         IN  Flatten(parts, lo, mid) \o Flatten(parts, mid + 1, hi)

\* TextEncoder: the bytes of a text
Encode(text) ==
    Flatten([i \in 1 .. Len(text) |->
               IF text[i] = TwoByteChar THEN <<LeadByte, ContinuationByte>>
               ELSE <<text[i]>>],
            1, Len(text))

\* what the decoder makes of the byte at position i of a chunk: the
\* character, the two-byte character once its second byte is there, U+FFFD
\* for a byte that fits no sequence, or nothing yet (`held` says that the
\* decoder holds the lead byte the previous chunk ended with, `streaming` that
\* a lead byte at the end of the chunk is held for the next one)
DecodeAt(held, bytes, i, streaming) ==
    LET b == bytes[i]
        afterHeld == i = 1 /\ held
        afterLead == i > 1 /\ bytes[i - 1] = LeadByte
    IN  (IF afterHeld /\ b # ContinuationByte THEN <<ReplacementChar>>
         ELSE <<>>)
        \o (CASE b = ContinuationByte ->
                   IF afterHeld \/ afterLead THEN <<TwoByteChar>>
                   ELSE <<ReplacementChar>>
               [] b = LeadByte ->
                   IF i < Len(bytes)
                   THEN IF bytes[i + 1] = ContinuationByte THEN <<>>
                        ELSE <<ReplacementChar>>
                   ELSE IF streaming THEN <<>> ELSE <<ReplacementChar>>
               [] OTHER -> <<b>>)

\* decoder.decode(value) with no `stream` option: a sequence cut by the end
\* of the chunk is replaced, and nothing is held
DecodeNoStream(held, bytes) ==
    [text |-> Flatten([i \in 1 .. Len(bytes) |->
                         DecodeAt(FALSE, bytes, i, FALSE)], 1, Len(bytes)),
     held |-> FALSE]

\* decoder.decode(value, { stream: true })
Decode(held, bytes) ==
    [text |-> Flatten([i \in 1 .. Len(bytes) |->
                         DecodeAt(held, bytes, i, TRUE)], 1, Len(bytes)),
     held |-> IF bytes = <<>> THEN held
              ELSE bytes[Len(bytes)] = LeadByte]

\* buffer.split('\n'): the pieces between the line feeds, at least one
RECURSIVE Split(_)
Split(text) ==
    IF \A i \in 1 .. Len(text) : text[i] # NL THEN <<text>>
    ELSE LET i == CHOOSE j \in 1 .. Len(text) :
                      /\ text[j] = NL
                      /\ \A k \in 1 .. j - 1 : text[k] # NL
         IN  <<SubSeq(text, 1, i - 1)>> \o Split(SubSeq(text, i + 1, Len(text)))

\* the buffer emptied after every read
RemainderDropped(lines) == <<>>

\* `buffer = lines.pop() || ''`
Remainder(lines) == lines[Len(lines)]

\* line.trim() === ''
IsBlank(line) == \A i \in 1 .. Len(line) : line[i] \in {" ", "\r", "\t"}

\* line.startsWith('data: ')
StartsWith(line, prefix) ==
    /\ Len(line) >= Len(prefix)
    /\ SubSeq(line, 1, Len(prefix)) = prefix

\* the sentinel taken for a payload like any other
IsDoneNever(data) == FALSE

\* data === '[DONE]'
IsDone(data) == data = DoneData

\* JSON.parse(data) does not throw
JsonWellFormed(data) ==
    \/ data = <<NoChoices>>
    \/ data = <<RoleOnly>>
    \/ /\ Len(data) >= 4
       /\ SubSeq(data, 1, 2) = <<OpenChoice, OpenContent>>
       /\ SubSeq(data, Len(data) - 1, Len(data)) = <<CloseContent, CloseChoice>>
       /\ \A i \in 3 .. Len(data) - 2 : data[i] \in ContentChars

\* choices[0].delta.content of the parsed payload, <<>> being none
DeltaContent(data) ==
    IF data \in {<<NoChoices>>, <<RoleOnly>>} THEN <<>>
    ELSE SubSeq(data, 3, Len(data) - 2)

\* every parsed chunk converted to a response
YieldsResponseAlways(data) == TRUE

\* convertStreamToGeminiResponse: null when there is no choice or no content
YieldsResponse(data) == DeltaContent(data) # <<>>

IdleStream ==
    [pc |-> "none",
     input |-> <<>>,        \* the bytes of the body not read yet
     held |-> FALSE,        \* the TextDecoder holds a lead byte
     buffer |-> <<>>,
     lines |-> <<>>,        \* what is left of `lines` in the for loop
     released |-> FALSE,    \* reader.releaseLock() was called
     \* history
     whole |-> <<>>,        \* the bytes of the whole body
     reads |-> 0,           \* reader.read() calls
     chunks |-> 0,          \* reads that delivered bytes
     readFailed |-> FALSE,
     processed |-> <<>>,    \* the lines the for loop has been through
     yielded |-> <<>>,      \* the text of every response yielded, in order
     releases |-> 0]

\* the finally block, after `return`, `break` or an exception
Finally(s, pc) ==
    [s EXCEPT !.pc = pc, !.lines = <<>>, !.released = TRUE, !.releases = @ + 1]

\* a payload that does not parse ends the generator with the exception
OnMalformedRethrow(s) == Finally(s, "threw")

\* the catch around JSON.parse and the conversion: console.warn
OnMalformed(s) == s

\* the for loop over `lines` up to the next yield, the return at the
\* sentinel, or the next reader.read()
RECURSIVE ForLines(_)
ForLines(s) ==
    IF s.pc # "run" THEN s
    ELSE IF s.lines = <<>>
    THEN [s EXCEPT !.pc = "read", !.reads = @ + 1]
    ELSE LET line == Head(s.lines)
             t == [s EXCEPT !.lines = Tail(@),
                            !.processed = Append(@, line)]
             data == SubSeq(line, Len(DataPrefix) + 1, Len(line))
         IN  IF IsBlank(line) THEN ForLines(t)
             ELSE IF ~StartsWith(line, DataPrefix) THEN ForLines(t)
             ELSE IF IsDone(data) THEN Finally(t, "done")
             ELSE IF ~JsonWellFormed(data) THEN ForLines(OnMalformed(t))
             ELSE IF YieldsResponse(data)
             THEN [t EXCEPT !.pc = "yielded",
                            !.yielded = Append(@, DeltaContent(data))]
             ELSE ForLines(t)

\* after `await reader.read()` delivered a chunk
Decoded(s, chunk) ==
    LET decoded == Decode(s.held, chunk)
        lines == Split(s.buffer \o decoded.text)
    IN  ForLines([s EXCEPT !.pc = "run",
                           !.held = decoded.held,
                           !.buffer = Remainder(lines),
                           !.lines = SubSeq(lines, 1, Len(lines) - 1),
                           !.chunks = @ + 1])

\* the consumer's next(): the generator starts, or goes on after a yield
StreamNext ==
    /\ stream.pc \in {"created", "yielded"}
    /\ stream' = ForLines([stream EXCEPT !.pc = "run"])
    /\ UNCHANGED <<now, file, flow, flowRuns, callers, gen>>

\* reader.read() resolves with the next bytes of the body, however many
\* (the last of maxReads reads delivers all that is left)
StreamRead(maxReads) ==
    /\ stream.pc = "read"
    /\ stream.input # <<>>
    /\ \E n \in 1 .. Len(stream.input) :
          /\ stream.chunks + 1 >= maxReads => n = Len(stream.input)
          /\ stream' = Decoded([stream EXCEPT !.input =
                                   SubSeq(@, n + 1, Len(@))],
                               SubSeq(stream.input, 1, n))
    /\ UNCHANGED <<now, file, flow, flowRuns, callers, gen>>

\* the carry-over buffer handled as a last line when the body ends
StreamEndedFlush ==
    /\ stream.pc = "read"
    /\ stream.input = <<>>
    /\ LET s == ForLines([stream EXCEPT !.pc = "run",
                                        !.lines = <<stream.buffer>>,
                                        !.buffer = <<>>])
       IN  stream' = IF s.pc = "read" THEN Finally(s, "done") ELSE s
    /\ UNCHANGED <<now, file, flow, flowRuns, callers, gen>>

\* reader.read() resolves with done: break, finally
StreamEnded ==
    /\ stream.pc = "read"
    /\ stream.input = <<>>
    /\ stream' = Finally(stream, "done")
    /\ UNCHANGED <<now, file, flow, flowRuns, callers, gen>>

\* reader.read() rejects: finally, and the exception goes to the consumer
StreamReadFailed ==
    /\ stream.pc = "read"
    /\ stream' = Finally([stream EXCEPT !.readFailed = TRUE], "threw")
    /\ UNCHANGED <<now, file, flow, flowRuns, callers, gen>>

\* a frame of the event stream
Frame(data) == DataPrefix \o data \o <<NL>>

\* the payload of a chunk whose delta has the given content
Chunk(content) == <<OpenChoice, OpenContent>> \o content \o <<CloseContent, CloseChoice>>

\* the bodies the backend may send
StreamBodies ==
    {Encode(text) : text \in
       {Frame(Chunk(<<"h", "i">>)) \o <<NL>> \o Frame(DoneData) \o <<NL>>,
        Frame(Chunk(<<"a">>)) \o Frame(<<OpenChoice, OpenContent, "a">>)
          \o Frame(Chunk(<<"b">>)) \o Frame(DoneData),
        Frame(Chunk(<<"a">>)) \o Frame(DoneData) \o Frame(Chunk(<<"b">>)),
        Frame(Chunk(<<TwoByteChar>>)) \o <<":", " ", "p", NL>>
          \o Frame(<<NoChoices>>) \o DataPrefix \o Chunk(<<"b">>),
        Frame(<<RoleOnly>>) \o Frame(Chunk(<<>>)) \o Frame(Chunk(<<"a">>))
          \o Frame(DoneData)}}

----------------------------------------------------------------------------
(* GitHubCopilotContentGenerator: generateContent, generateContentStream     *)
(*                                                                           *)
(* The source holds three generators.  "headers" asks for the token in       *)
(* getAuthHeaders and hands the request to OpenAIContentGenerator; "fetch"   *)
(* builds the request body and converts the response itself; "retry" gets    *)
(* the token through getTokenWithRetry and sends a body built by             *)
(* OpenAIContentGenerator, whose code is not part of the source.             *)

Generators == {"headers", "fetch", "retry"}

\* the caller slot of the generator's getValidAccessToken calls
GenCaller == 1

\* sampling knobs: temperature and top-p are held in tenths
DefaultMaxTokens == 4096
DefaultTemperatureTenths == 7
DefaultTopPTenths == 10

Unset == [set |-> FALSE, value |-> 0]
Knob(v) == [set |-> TRUE, value |-> v]

NoConfig ==
    [present |-> FALSE, maxOutputTokens |-> Unset, temperature |-> Unset,
     topP |-> Unset]

\* `request.config?.knob`
ConfigKnob(request, knob) ==
    IF request.config.present THEN request.config[knob] ELSE Unset

\* `value || fallback`: undefined and 0 are both falsy
OrDefault(knob, fallback) ==
    IF knob.set /\ knob.value # 0 THEN knob.value ELSE fallback

\* the parts of a Content: text, inlineData, or anything else
TextPart(text) == [kind |-> "text", text |-> text, mimeType |-> ""]
InlinePart(mimeType) == [kind |-> "inlineData", text |-> <<>>, mimeType |-> mimeType]
CallPart == [kind |-> "functionCall", text |-> <<>>, mimeType |-> ""]

\* an entry of `contents`: a Content with role and parts, or a string
Turn(role, parts) == [kind |-> "content", role |-> role, parts |-> parts, text |-> <<>>]
StringContent(text) == [kind |-> "string", role |-> "", parts |-> <<>>, text |-> text]

\* the callback of content.parts.map
PartText(part) ==
    IF part.kind = "text" /\ part.text # <<>> THEN part.text
    ELSE IF part.kind = "inlineData"
    THEN <<"[Image data: ", part.mimeType, "]">>
    ELSE <<>>

\* content.parts.map(...).join('')
TurnText(content) ==
    Flatten([i \in 1 .. Len(content.parts) |-> PartText(content.parts[i])],
            1, Len(content.parts))

\* text.trim() is the empty string
IsBlankText(text) ==
    \A i \in 1 .. Len(text) : text[i] \in {" ", "\n", "\t", "\r"}

\* a message pushed for every Content
MessagesOfUnfiltered(content) ==
    IF content.kind = "string"
    THEN <<[role |-> "user", content |-> content.text]>>
    ELSE <<[role |-> IF content.role = "user" THEN "user" ELSE "assistant",
           content |-> TurnText(content)]>>

\* what the body of the for loop pushes for one entry of `contents`
MessagesOf(content) ==
    IF content.kind = "string"
    THEN <<[role |-> "user", content |-> content.text]>>
    ELSE IF ~IsBlankText(TurnText(content))
    THEN <<[role |-> IF content.role = "user" THEN "user" ELSE "assistant",
           content |-> TurnText(content)]>>
    ELSE <<>>

\* convertToOpenAIMessages (a single Content is handled as an array of one)
convertToOpenAIMessages(contents) ==
    Flatten([i \in 1 .. Len(contents) |-> MessagesOf(contents[i])],
            1, Len(contents))

\* the body built by OpenAIContentGenerator: not modelled
BaseBody(streaming) ==
    [builtBy |-> "OpenAIContentGenerator", messages |-> <<>>,
     max_tokens |-> 0, temperature |-> 0, top_p |-> 0, stream |-> streaming]

\* requestBody of generateContent and generateContentStream
requestBody(request, streaming) ==
    [builtBy |-> "GitHubCopilotContentGenerator",
     messages |-> convertToOpenAIMessages(request.contents),
     max_tokens |-> OrDefault(ConfigKnob(request, "maxOutputTokens"),
                              DefaultMaxTokens),
     temperature |-> OrDefault(ConfigKnob(request, "temperature"),
                               DefaultTemperatureTenths),
     top_p |-> OrDefault(ConfigKnob(request, "topP"), DefaultTopPTenths),
     stream |-> streaming]

\* the header with the placeholder key the client was constructed with
AuthorizationPlaceholder(token) == <<"Bearer ", "placeholder-api-key">>

\* 'Authorization': `Bearer ${token}`
AuthorizationHeader(token) == <<"Bearer ", token>>

AuthRequiredMessage ==
    "GitHub Copilot authentication required. Please authenticate with GitHub Copilot first."
NoChoicesMessage == "No choices in GitHub Copilot response"

\* mapFinishReason
mapFinishReason(reason) ==
    CASE reason = "stop" -> "STOP"
      [] reason = "length" -> "MAX_TOKENS"
      [] reason = "content_filter" -> "SAFETY"
      [] OTHER -> "FINISH_REASON_UNSPECIFIED"

\* a GenerateContentResponse not built yet
NoResponse ==
    [candidates |-> <<>>,
     usageMetadata |-> [promptTokenCount |-> 0, candidatesTokenCount |-> 0,
                        totalTokenCount |-> 0],
     responseId |-> "", modelVersion |-> ""]

\* the last choice taken for the first
LastChoice(choices) == choices[Len(choices)]

\* copilotResponse.choices[0]
FirstChoice(choices) == choices[1]

\* the total computed from the two other counters
UsageMetadataSummed(usage) ==
    [promptTokenCount |-> usage.prompt_tokens,
     candidatesTokenCount |-> usage.completion_tokens,
     totalTokenCount |-> usage.prompt_tokens + usage.completion_tokens]

\* response.usageMetadata
UsageMetadata(usage) ==
    [promptTokenCount |-> usage.prompt_tokens,
     candidatesTokenCount |-> usage.completion_tokens,
     totalTokenCount |-> usage.total_tokens]

\* convertToGeminiResponse: throws when there is no choice
convertToGeminiResponse(copilotResponse) ==
    IF copilotResponse.choices = <<>>
    THEN [threw |-> TRUE, response |-> NoResponse]
    ELSE LET choice == FirstChoice(copilotResponse.choices)
         IN  [threw |-> FALSE,
              response |->
                [candidates |->
                   <<[parts |-> IF choice.message.content # <<>>
                                THEN <<choice.message.content>>
                                ELSE <<>>,
                      role |-> "model",
                      finishReason |-> mapFinishReason(choice.finish_reason),
                      index |-> choice.index]>>,
                 usageMetadata |-> UsageMetadata(copilotResponse.usage),
                 responseId |-> copilotResponse.id,
                 modelVersion |-> copilotResponse.model]]

\* the request of the unit test
TestRequest ==
    [contents |-> <<Turn("user", <<TextPart(<<"hello">>)>>)>>,
     config |-> NoConfig]

\* the requests a caller may make: some `contents` with no config, and
\* the test's contents with every setting of the three sampling knobs
Requests ==
    LET Contents ==
            {<<Turn("user", <<TextPart(<<"hello">>)>>)>>,
             <<Turn("user", <<TextPart(<<"a">>), InlinePart("image/png"),
                              TextPart(<<"b">>)>>),
               Turn("model", <<TextPart(<<"c">>)>>),
               Turn("system", <<TextPart(<<"d">>), TextPart(<<" ">>)>>)>>,
             <<Turn("user", <<TextPart(<<" ">>)>>), Turn("model", <<CallPart>>)>>,
             <<Turn("user", <<TextPart(<<"a">>)>>), Turn("model", <<CallPart>>),
               Turn("user", <<TextPart(<<"b">>)>>)>>,
             <<StringContent(<<"hi">>),
               Turn("model", <<InlinePart("audio/wav")>>)>>}
        KnobValues(value) == {Unset, Knob(0), Knob(value)}
        Configs ==
            {NoConfig}
            \cup [present : {TRUE},
                  maxOutputTokens : KnobValues(256),
                  temperature : KnobValues(2),
                  topP : KnobValues(9)]
    IN  {[contents |-> c, config |-> NoConfig] : c \in Contents}
        \cup {[contents |-> TestRequest.contents, config |-> k] : k \in Configs}

NoBackendResponse ==
    [id |-> "", model |-> "", choices |-> <<>>,
     usage |-> [prompt_tokens |-> 0, completion_tokens |-> 0, total_tokens |-> 0]]

\* the responses the backend may send: zero, one or two choices, and usage
\* counters that add up or not
BackendResponses ==
    LET Choice(index, content, reason) ==
            [index |-> index,
             message |-> [role |-> "assistant", content |-> content],
             finish_reason |-> reason]
        ChoiceLists ==
            {<<>>,
             <<Choice(0, <<"Hello">>, "stop")>>,
             <<Choice(0, <<"Hello">>, "length"), Choice(1, <<"Bye">>, "stop")>>,
             <<Choice(0, <<"Bye">>, "content_filter"),
               Choice(1, <<"Hello">>, "stop")>>,
             <<Choice(0, <<>>, "tool_calls")>>}
        Usages ==
            {[prompt_tokens |-> 1, completion_tokens |-> 1, total_tokens |-> 2],
             [prompt_tokens |-> 3, completion_tokens |-> 2, total_tokens |-> 5],
             [prompt_tokens |-> 1, completion_tokens |-> 1, total_tokens |-> 3]}
    IN  [id : {"chatcmpl-1"}, model : {"gpt-4"}, choices : ChoiceLists,
         usage : Usages]

\* what the chat-completions endpoint, or the network, may answer
BackendAnswers ==
    [kind : {"ok"}, response : BackendResponses]
    \cup [kind : {"no_body"}]
    \cup [kind : {"status"}, status : {401, 500},
          text : {"", "{\"error\":\"quota exceeded\"}"}]
    \cup [kind : {"throw"}]

IdleGen ==
    [pc |-> "none",
     generator |-> "fetch",
     streaming |-> FALSE,        \* generateContentStream, not generateContent
     request |-> TestRequest,
     token |-> NoToken,          \* `token`
     \* history
     firstToken |-> NoToken,     \* what the first getValidAccessToken returned
     tokenCalls |-> 0,           \* getValidAccessToken calls
     oauthFlows |-> 0,           \* triggerOAuthFlow calls
     requests |-> <<>>,          \* the chat-completions requests sent
     backend |-> NoBackendResponse,   \* the response that was converted
     outcome |-> "none",
     message |-> "",             \* the message of the Error thrown
     status |-> 0,               \* response.status of a non-ok response
     errorText |-> "",           \* `errorText`
     result |-> NoResponse,
     unlinks |-> 0]

GenThrew(g, outcome, message) ==
    [g EXCEPT !.pc = "threw", !.outcome = outcome, !.message = message]

GenReturned(g, outcome) == [g EXCEPT !.pc = "returned", !.outcome = outcome]

\* no token: the generator's own Error, which getTokenWithRetry catches and
\* replaces by its own
NoTokenThrows(g) ==
    IF g.generator = "retry"
    THEN GenThrew(g, "token_failed",
                  "Failed to obtain valid GitHub Copilot access token. Please re-authenticate.")
    ELSE GenThrew(g, "auth_required", AuthRequiredMessage)

\* the chat-completions request is sent with the token
SendRequest(g, token) ==
    [g EXCEPT !.pc = "fetch",
              !.requests = Append(@,
                 [authorization |-> AuthorizationHeader(token),
                  body |-> IF g.generator = "fetch"
                           THEN requestBody(g.request, g.streaming)
                           ELSE BaseBody(g.streaming)])]

\* generateContent or generateContentStream is called: getValidAccessToken
GenCall ==
    /\ gen.pc = "created"
    /\ gen' = [gen EXCEPT !.pc = "token", !.tokenCalls = 1]
    /\ UNCHANGED <<now, file, flow, flowRuns, callers, stream>>

\* the client's getValidAccessToken starts for the generator
GenTokenCall ==
    /\ gen.pc = "token"
    /\ callers[GenCaller].calls < gen.tokenCalls
    /\ TokenCall(GenCaller)

\* getValidAccessToken has returned: the request is sent, the error thrown,
\* or (getValidToken) the OAuth flow triggered
GenTokenReturned ==
    /\ gen.pc = "token"
    /\ callers[GenCaller].pc = "returned"
    /\ callers[GenCaller].calls = gen.tokenCalls
    /\ LET token == callers[GenCaller].result
           g == [gen EXCEPT !.token = token,
                            !.firstToken = IF gen.tokenCalls = 1 THEN token
                                           ELSE @]
       IN  gen' = IF token # NoToken THEN SendRequest(g, token)
                  ELSE IF g.generator = "retry" /\ g.oauthFlows = 0
                  THEN [g EXCEPT !.pc = "oauth", !.oauthFlows = 1]
                  ELSE NoTokenThrows(g)
    /\ UNCHANGED <<now, file, flow, flowRuns, callers, stream>>

\* triggerOAuthFlow: performGitHubCopilotOAuthFlow starts
GenFlowStart ==
    /\ gen.pc = "oauth"
    /\ FlowStart({TRUE}, gen.oauthFlows)

\* the token read again whatever triggerOAuthFlow returned
GenFlowReturnedReread ==
    /\ gen.pc = "oauth"
    /\ flowRuns = gen.oauthFlows
    /\ flow.pc \in {"returned", "threw"}
    /\ gen' = [gen EXCEPT !.pc = "token", !.tokenCalls = @ + 1]
    /\ UNCHANGED <<now, file, flow, flowRuns, callers, stream>>

\* triggerOAuthFlow has returned: getValidAccessToken once more, or the error
GenFlowReturned ==
    /\ gen.pc = "oauth"
    /\ flowRuns = gen.oauthFlows
    /\ flow.pc \in {"returned", "threw"}
    /\ gen' = IF flow.trigger
              THEN [gen EXCEPT !.pc = "token", !.tokenCalls = @ + 1]
              ELSE NoTokenThrows(gen)
    /\ UNCHANGED <<now, file, flow, flowRuns, callers, stream>>

\* what follows the answer in the generator that sends the request itself
FetchAnswered(g, a) ==
    CASE a.kind = "throw" -> GenThrew(g, "fetch_failed", "fetch failed")
      [] a.kind = "status" /\ a.status = 401 /\ g.generator = "retry" ->
            [g EXCEPT !.pc = "clear", !.status = a.status,
                      !.errorText = a.text]
      [] a.kind = "status" ->
            GenThrew([g EXCEPT !.status = a.status, !.errorText = a.text],
                     "api_error",
                     "GitHub Copilot API error: " \o ToString(a.status)
                        \o " " \o StatusText(a.status)[1]
                        \o " - " \o a.text)
      [] a.kind = "no_body" ->
            IF g.streaming THEN GenThrew(g, "no_body",
                          "No response body received from GitHub Copilot API")
            ELSE GenThrew(g, "json_failed", "Unexpected end of JSON input")
      [] OTHER ->
            IF g.streaming THEN GenReturned(g, "stream")
            ELSE IF g.generator = "retry"
            THEN GenReturned([g EXCEPT !.backend = a.response], "base")
            ELSE LET converted == convertToGeminiResponse(a.response)
                     h == [g EXCEPT !.backend = a.response]
                 IN  IF converted.threw
                     THEN GenThrew(h, "no_choices", NoChoicesMessage)
                     ELSE GenReturned([h EXCEPT !.result = converted.response],
                                      "converted")

\* the chat-completions call returns or throws
GenResponse ==
    /\ gen.pc = "fetch"
    /\ \E a \in BackendAnswers :
          gen' = IF gen.generator = "headers"
                 THEN IF a.kind = "ok" THEN GenReturned(gen, "base")
                      ELSE GenThrew(gen, "base_error", "")
                 ELSE FetchAnswered(gen, a)
    /\ UNCHANGED <<now, file, flow, flowRuns, callers, stream>>

\* the Error after a 401 with the credential file left alone
GenClearedKept ==
    /\ gen.pc = "clear"
    /\ gen' = GenThrew(gen, "expired",
                       "GitHub Copilot authentication has expired. Please authenticate with GitHub Copilot again.")
    /\ UNCHANGED <<now, file, flow, flowRuns, callers, stream>>

\* `await this.copilotClient.clearCredentials()` after a 401, and the Error
GenCleared ==
    /\ gen.pc = "clear"
    /\ file' = clearCredentials(file).file
    /\ flow' = Unlinked(flow)
    /\ callers' = [d \in Callers |-> Unlinked(callers[d])]
    /\ gen' = GenThrew([gen EXCEPT !.unlinks = @ + 1], "expired",
                       "GitHub Copilot authentication has expired. Please authenticate with GitHub Copilot again.")
    /\ UNCHANGED <<now, flowRuns, stream>>

\* one message for every result of the flow
ClientErrorMessageGeneric(result) ==
    "GitHub Copilot OAuth authentication failed"

\* the Error getGitHubCopilotOAuthClient throws for a flow result other than
\* 'complete'
ClientErrorMessage(result) ==
    CASE result = "timeout" ->
            "GitHub Copilot OAuth authentication timed out"
      [] result = "cancelled" ->
            "GitHub Copilot OAuth authentication was cancelled by user"
      [] result = "rate_limited" ->
            "Too many requests for GitHub Copilot OAuth authentication, please try again later."
      [] OTHER -> "GitHub Copilot OAuth authentication failed"

\* getGitHubCopilotOAuthClient is called (`gen` holds the call): after
\* loadCredentials, getValidAccessToken if the record has an access token,
\* the device flow if not
GetClientCall ==
    /\ gen.pc = "created"
    /\ gen' = IF HasAccessToken(loadCredentials(file))
              THEN [gen EXCEPT !.pc = "token", !.tokenCalls = 1]
              ELSE [gen EXCEPT !.pc = "oauth", !.oauthFlows = 1]
    /\ UNCHANGED <<now, file, flow, flowRuns, callers, stream>>

\* getValidAccessToken has returned: with a token the client is returned;
\* with null, or after the catch has cleared the credentials, the device
\* flow is next
ClientTokenReturned ==
    /\ gen.pc = "token"
    /\ callers[GenCaller].calls = gen.tokenCalls
    /\ callers[GenCaller].pc \in {"returned", "raised"}
    /\ LET task == callers[GenCaller]
           g == [gen EXCEPT !.pc = "oauth", !.oauthFlows = 1]
       IN  IF task.pc = "raised"
           THEN /\ file' = clearCredentials(file).file
                /\ gen' = [g EXCEPT !.unlinks = @ + 1]
           ELSE /\ file' = file
                /\ gen' = IF task.result # NoToken
                          THEN GenReturned([gen EXCEPT !.token = task.result,
                                                       !.firstToken = task.result],
                                           "cached")
                          ELSE g
    /\ UNCHANGED <<now, flow, flowRuns, callers, stream>>

\* performGitHubCopilotOAuthFlow has returned: the client for 'complete', an
\* Error for any other result
ClientFlowReturned ==
    /\ gen.pc = "oauth"
    /\ flowRuns = gen.oauthFlows
    /\ flow.pc \in {"returned", "threw"}
    /\ gen' = IF flow.pc = "threw" THEN GenThrew(gen, "flow_threw", "")
              ELSE IF flow.result = "complete"
              THEN GenReturned(gen, "complete")
              ELSE GenThrew(gen, flow.result, ClientErrorMessage(flow.result))
    /\ UNCHANGED <<now, file, flow, flowRuns, callers, stream>>

\* what the credential file may hold when the generator is called: nothing,
\* a device flow's record, or a record with a Copilot token that is not
\* expiring
GenFiles ==
    {NoFile,
     Stringify(StoredPrimary, <<0, 1>>),
     Stringify(UpdatedCredentials(StoredPrimary,
                 [token |-> CopilotToken(0, 1), expires_at |-> 40], 0),
               <<1, 1>>)}

----------------------------------------------------------------------------

Init ==
    /\ now = 0
    /\ file = NoFile
    /\ flow = IdleFlow
    /\ flowRuns = 0
    /\ callers = [c \in Callers |-> IdleCaller]
    /\ stream = IdleStream
    /\ gen = IdleGen

\* one device flow, against every answer of the servers
Next ==
    \/ Tick(MaxTicks)
    \/ FlowStart(BOOLEAN, MaxFlows)
    \/ DeviceCodeIssued(Intervals, ExpiresIns)
    \/ DeviceCodeFailed
    \/ BrowserOpened
    \/ PollAnswered(PollAnswers)
    \/ PollSaveOpen
    \/ PollSaveWrite
    \/ PollSaveFailed
    \/ SleepDone
    \/ DeadlineFired
    \/ CancelEmitted

Spec == Init /\ [][Next]_vars

\* the device flow with every call it awaits returning: the clock is not cut
\* off under a pending sleep, and a pending await of the flow is resumed
NextLive ==
    \/ Next
    \/ SleepElapses

\* the resumption of the flow after one of its awaits
FlowResumed ==
    \/ DeviceCodeIssued(Intervals, ExpiresIns)
    \/ DeviceCodeFailed
    \/ BrowserOpened
    \/ PollAnswered(PollAnswers)
    \/ PollSaveOpen
    \/ PollSaveWrite
    \/ PollSaveFailed
    \/ SleepDone
    \/ SleepElapses

SpecLive == Init /\ [][NextLive]_vars /\ WF_vars(FlowResumed)

\* the credential store under concurrent use: callers of getValidAccessToken,
\* clearCredentials, and device flows of a single poll
NextStore ==
    \/ Tick(MaxStoreTicks)
    \/ FlowStart({TRUE}, MaxStoreOps - CallsUpTo(NumCallers))
    \/ DeviceCodeIssued(StoreIntervals, StoreExpiresIns)
    \/ DeviceCodeFailed
    \/ PollAnswered(PollAnswers)
    \/ PollSaveOpen
    \/ PollSaveWrite
    \/ PollSaveFailed
    \/ ClearCredentials
    \/ \E c \in Callers :
          \/ TokenCall(c)
          \/ ExchangeAnswered(c)
          \/ CallerSaveOpen(c)
          \/ CallerSaveWrite(c)
          \/ CallerSaveFailed(c)
          \/ CallerUnlink(c)

SpecStore == Init /\ [][NextStore]_vars

\* a client constructed over whatever an earlier session left in the file
InitCalls ==
    /\ now = 0
    /\ file \in StoredFiles
    /\ flow = IdleFlow
    /\ flowRuns = 0
    /\ callers = [c \in Callers |-> IdleCaller]
    /\ stream = IdleStream
    /\ gen = IdleGen

\* the store's read and clear operations, called one after another
NextCalls ==
    \/ Tick(MaxStoreTicks)
    \/ \E c \in Callers :
          \/ HasValidCall(c)
          \/ LoadCall(c)
          \/ ClearCall(c)

SpecCalls == InitCalls /\ [][NextCalls]_vars

\* generateContentStream has returned the generator of a response body
InitStream ==
    /\ now = 0
    /\ file = NoFile
    /\ flow = IdleFlow
    /\ flowRuns = 0
    /\ callers = [c \in Callers |-> IdleCaller]
    /\ \E body \in StreamBodies :
          stream = [IdleStream EXCEPT !.pc = "created",
                                      !.input = body,
                                      !.whole = body]
    /\ gen = IdleGen

\* the consumer iterates the generator to its end
NextStream ==
    \/ StreamNext
    \/ StreamRead(MaxReads)
    \/ StreamEnded
    \/ StreamReadFailed

SpecStream == InitStream /\ [][NextStream]_vars

\* one call of a content generator, with the client under it
InitGen ==
    /\ now = 0
    /\ file \in GenFiles
    /\ flow = IdleFlow
    /\ flowRuns = 0
    /\ callers = [c \in Callers |-> IdleCaller]
    /\ stream = IdleStream
    /\ \E generator \in Generators, streaming \in BOOLEAN, request \in Requests :
          /\ generator # "fetch" => request = TestRequest
          /\ gen = [IdleGen EXCEPT !.pc = "created",
                                   !.generator = generator,
                                   !.streaming = streaming,
                                   !.request = request]

NextGen ==
    \/ GenCall
    \/ GenTokenCall
    \/ ExchangeAnswered(GenCaller)
    \/ CallerSaveOpen(GenCaller)
    \/ CallerSaveWrite(GenCaller)
    \/ CallerSaveFailed(GenCaller)
    \/ CallerUnlink(GenCaller)
    \/ GenTokenReturned
    \/ GenFlowStart
    \/ DeviceCodeIssued(StoreIntervals, StoreExpiresIns)
    \/ DeviceCodeFailed
    \/ PollAnswered(PollAnswers)
    \/ PollSaveOpen
    \/ PollSaveWrite
    \/ PollSaveFailed
    \/ GenFlowReturned
    \/ GenResponse
    \/ GenCleared

SpecGen == InitGen /\ [][NextGen]_vars

\* one call of getGitHubCopilotOAuthClient over what an earlier session left
InitClient ==
    /\ now = 0
    /\ file \in GenFiles
    /\ flow = IdleFlow
    /\ flowRuns = 0
    /\ callers = [c \in Callers |-> IdleCaller]
    /\ stream = IdleStream
    /\ gen = [IdleGen EXCEPT !.pc = "created", !.generator = "client"]

NextClient ==
    \/ GetClientCall
    \/ GenTokenCall
    \/ ExchangeAnswered(GenCaller)
    \/ CallerSaveOpen(GenCaller)
    \/ CallerSaveWrite(GenCaller)
    \/ CallerSaveFailed(GenCaller)
    \/ CallerUnlink(GenCaller)
    \/ ClientTokenReturned
    \/ GenFlowStart
    \/ DeviceCodeIssued(StoreIntervals, StoreExpiresIns)
    \/ DeviceCodeFailed
    \/ PollAnswered(PollAnswers)
    \/ PollSaveOpen
    \/ PollSaveWrite
    \/ PollSaveFailed
    \/ ClientFlowReturned

SpecClient == InitClient /\ [][NextClient]_vars

----------------------------------------------------------------------------
(* The device flow: cancellation, deadline, poll budget, release *)

\* C1: a cancel signal received while the flow runs makes the flow end with
\* 'cancelled', and no pollForAccessToken call is started after the signal.
C1_CancelEndsFlow ==
    flow.cancelSeen =>
        /\ flow.polls = flow.pollsAtCancel
        /\ flow.pc = "returned" => flow.result = "cancelled"

\* C2: if the deadline timer fires while the polling loop has not concluded,
\* the flow's result is 'timeout', whatever the poll in flight returns.
C2_DeadlineSupersedes ==
    (flow.pc = "returned" /\ flow.firedInFlight) => flow.result = "timeout"

\* a device authorization was issued to this flow
DeviceAuthIssued == flow.interval > 0

\* C3: a flow makes at most floor(expires_in / interval) polls, and if every
\* poll answers 'pending' it makes all of them and ends with 'timeout'.
C3_PollBudget ==
    DeviceAuthIssued =>
        /\ flow.polls <= flow.expires_in \div flow.interval
        /\ (flow.pc = "returned" /\ flow.allPending) =>
              /\ flow.result = "timeout"
              /\ flow.polls = flow.expires_in \div flow.interval

\* interval=5, expires_in=20: four polls, all pending, then 'timeout'
C3_Witness ==
    /\ flow.pc = "returned"
    /\ flow.interval = 5 /\ flow.expires_in = 20
    /\ flow.allPending
    /\ flow.polls = 4
    /\ flow.result = "timeout"

\* C4 as stated: on every exit path the deadline timer and the AuthCancel
\* subscription are each released exactly once, and nothing stays armed or
\* registered after the return.
C4_ReleasedExactlyOnce ==
    flow.pc = "returned" =>
        /\ flow.listenerOffs = 1
        /\ flow.timerClears = 1
        /\ ~flow.listener
        /\ ~flow.timerArmed

\* C4 amended: after the return no deadline timer is armed and no cancel
\* listener is registered; the listener was removed exactly once; a timer that
\* was armed either fired or was cleared exactly once, and a flow that armed
\* none cleared none.  cleanup() itself ran more than once.
C4_Released ==
    flow.pc = "returned" =>
        /\ ~flow.listener
        /\ ~flow.timerArmed
        /\ flow.listenerOffs = 1
        /\ flow.timerClears + (IF flow.firedInFlight THEN 1 ELSE 0)
             = (IF flow.timerSet THEN 1 ELSE 0)
        /\ flow.cleanups >= 2

\* a cancelled flow that had armed its timer has returned
C4_Witness ==
    /\ flow.pc = "returned"
    /\ flow.cancelSeen
    /\ flow.timerSet
    /\ flow.timerClears = 1
    /\ flow.cleanups = 3

----------------------------------------------------------------------------
(* getValidAccessToken and the credential file *)

\* the step in which caller c's getValidAccessToken call reads the file
Loads(c) == callers'[c].calls = callers[c].calls + 1

\* the step in which caller c's call returns
Returns(c) == callers[c].pc # "returned" /\ callers'[c].pc = "returned"

\* the call touched the file neither while it ran nor in this step
NoFileEffect(c) ==
    /\ callers'[c].writes = 0
    /\ callers'[c].unlinks = 0
    /\ file' = file

\* C5: with a stored primary token and a stored secondary token that expires
\* more than 30 seconds from now, getValidAccessToken returns the stored
\* secondary token, makes no exchange call and neither writes nor deletes
\* the file.
C5_CachedTokenNoNetwork ==
    [][\A c \in Callers :
         LET stored == loadCredentials(file)
         IN  (/\ Loads(c)
              /\ stored # Null
              /\ Has(stored, "access_token") /\ stored.access_token # ""
              /\ Has(stored, "copilot_token") /\ stored.copilot_token # ""
              /\ Has(stored, "copilot_expires_at")
              /\ stored.copilot_expires_at - now > 30 * 1000)
             => /\ callers'[c].pc = "returned"
                /\ callers'[c].result = stored.copilot_token
                /\ callers'[c].exchanges = 0
                /\ NoFileEffect(c)]_vars

\* a call has returned the cached token
C5_Witness ==
    \E c \in Callers :
        /\ callers[c].pc = "returned"
        /\ callers[c].outcome = "cached"
        /\ callers[c].result # NoToken
        /\ callers[c].exchanges = 0

\* the record the call hands to saveCredentials is the loaded one with the
\* newly issued secondary token and expiry
RefreshedRecord(task) ==
    /\ task.toSave.access_token = task.creds.access_token
    /\ task.toSave.created_at = task.creds.created_at
    /\ task.toSave.copilot_token = task.issued.token
    /\ task.toSave.copilot_expires_at = task.issued.expires_at * 1000

\* the call is past a successful exchange
Exchanged(task) == task.pc \in {"save_open", "save_write"}

\* C6 as stated: a call that refreshes and whose exchange succeeds makes
\* exactly one exchange call, returns the new secondary token and persists
\* the loaded record with the new secondary token and expiry.
C6_RefreshPersists ==
    [][\A c \in Callers :
         (Exchanged(callers[c]) /\ Returns(c))
         => /\ callers[c].exchanges = 1
            /\ callers'[c].result = callers[c].issued.token
            /\ RefreshedRecord(callers[c])
            /\ loadCredentials(file') = callers[c].toSave]_vars

\* C6 amended: such a call makes exactly one exchange call and hands
\* saveCredentials the loaded record with the new secondary token and expiry.
\* If the save succeeds it returns the new token, and the file then holds
\* that record unless another task wrote or deleted the file during the save.
\* If the save throws it returns null.
C6_RefreshSaves ==
    [][\A c \in Callers :
         (Exchanged(callers[c]) /\ Returns(c))
         => /\ callers[c].exchanges = 1
            /\ callers'[c].exchanges = 1
            /\ RefreshedRecord(callers[c])
            /\ IF callers'[c].writes = 1
               THEN /\ callers'[c].result = callers[c].issued.token
                    /\ ~callers[c].raced
                         => loadCredentials(file') = callers[c].toSave
               ELSE /\ callers'[c].result = NoToken
                    /\ callers'[c].writes = 0]_vars

\* a refresh has returned the new token and the file holds the record
C6_Witness ==
    \E c \in Callers :
        /\ callers[c].pc = "returned"
        /\ callers[c].outcome = "refreshed"
        /\ callers[c].exchanges = 1
        /\ callers[c].writes = 1
        /\ loadCredentials(file) # Null
        /\ Has(loadCredentials(file), "copilot_token")
        /\ loadCredentials(file).copilot_token = callers[c].result

\* C7: when the exchange answers HTTP 401, the call deletes the stored
\* record and returns null, so that the next load finds no primary token.
C7_UnauthorizedClears ==
    [][\A c \in Callers :
         (Returns(c) /\ callers'[c].outcome = "401")
         => /\ callers'[c].result = NoToken
            /\ callers'[c].unlinks = 1
            /\ file' = NoFile
            /\ ~HasAccessToken(loadCredentials(file'))]_vars

\* a call answered 401 has returned, a record having been stored before
C7_Witness ==
    \E c \in Callers :
        /\ callers[c].pc = "returned"
        /\ callers[c].outcome = "401"
        /\ callers[c].unlinks = 1
        /\ file = NoFile

\* C8: when the exchange fails for a reason other than HTTP 401, the call
\* returns null and leaves the stored record as it was.
C8_OtherFailuresKeepRecord ==
    \A c \in Callers :
        (/\ callers[c].pc = "returned"
         /\ callers[c].outcome \in {"403", "404", "500", "threw"})
        => /\ callers[c].result = NoToken
           /\ callers[c].unlinks = 0
           /\ callers[c].writes = 0

\* C9: whatever the interleaving of getValidAccessToken, pollForAccessToken
\* and clearCredentials, a load sees no record or exactly the text one
\* saveCredentials call wrote, never a partial or mixed one.
C9_LoadSeesWholeRecord ==
    LET stored == loadCredentials(file)
    IN  stored # Null => file = Stringify(stored, file[1].by)

\* the saves of a refresh and of a device flow have raced: the file holds
\* pieces written by both, and a load of it yields no record
C9_Witness ==
    /\ file # NoFile
    /\ \E i, j \in 1 .. Len(file) : file[i].by # file[j].by
    /\ \E c \in Callers : callers[c].outcome = "refreshed"
    /\ flow.pc = "returned" /\ flow.result = "complete"
    /\ loadCredentials(file) = Null

\* C10: the stored record, when there is one, has a primary token, and has a
\* secondary token if and only if it has a secondary-token expiry.
C10_RecordShape ==
    LET stored == loadCredentials(file)
    IN  stored # Null
        => /\ Has(stored, "access_token") /\ stored.access_token # ""
           /\ Has(stored, "copilot_token") <=> Has(stored, "copilot_expires_at")

\* a refreshed record is stored
C10_Witness ==
    LET stored == loadCredentials(file)
    IN  /\ stored # Null
        /\ Has(stored, "copilot_token")
        /\ Has(stored, "copilot_expires_at")
        /\ flow.pc = "returned" /\ flow.result = "complete"

----------------------------------------------------------------------------
(* hasValidCredentials, clearCredentials, loadCredentials *)

\* caller c makes a call that ends in this step with one of the outcomes
CallEnds(c, outcomes) ==
    /\ callers'[c].calls = callers[c].calls + 1
    /\ callers'[c].pc = "returned"
    /\ callers'[c].outcome \in outcomes

\* C11: hasValidCredentials returns true exactly when the stored record has a
\* primary token and either no secondary token or a secondary token whose
\* expiry is strictly more than 30 seconds after now; it returns false
\* otherwise and never changes the stored record.
C11_HasValidCredentials ==
    [][\A c \in Callers :
        CallEnds(c, {"has_valid", "has_valid_raised"})
        => LET stored == loadCredentials(file)
           IN  /\ callers'[c].outcome = "has_valid"
               /\ callers'[c].valid =
                     (/\ stored # Null
                      /\ Has(stored, "access_token")
                      /\ stored.access_token # ""
                      /\ \/ ~Has(stored, "copilot_token")
                         \/ stored.copilot_expires_at > now + 30 * 1000)
               /\ file' = file]_vars

\* hasValidCredentials has returned false for a record whose secondary token
\* expires exactly 30 seconds from now
C11_Witness ==
    \E c \in Callers :
        /\ callers[c].outcome = "has_valid"
        /\ callers[c].valid = FALSE
        /\ loadCredentials(file) # Null
        /\ Has(loadCredentials(file), "copilot_expires_at")
        /\ loadCredentials(file).copilot_expires_at = now + 30 * 1000

\* C12: clearCredentials, called on a missing record or twice in a row,
\* raises no error and leaves the store empty.
C12_ClearIdempotent ==
    [][\A c \in Callers :
        CallEnds(c, {"cleared", "clear_raised"})
        => /\ callers'[c].outcome = "cleared"
           /\ file' = NoFile
           /\ loadCredentials(file') = Null]_vars

\* two clearCredentials calls in a row have returned, the second on a
\* missing file
C12_Witness ==
    \E c, d \in Callers :
        /\ c # d
        /\ callers[c].outcome = "cleared"
        /\ callers[d].outcome = "cleared"
        /\ file = NoFile

\* C13: loadCredentials never raises: for a missing file or a file whose
\* content is not well-formed it returns null, and it never modifies the
\* file.
C13_LoadNeverRaises ==
    [][\A c \in Callers :
        CallEnds(c, {"loaded", "load_raised"})
        => /\ callers'[c].outcome = "loaded"
           /\ (file = NoFile \/ ~WellFormed(file)) => callers'[c].value = Null
           /\ file' = file]_vars

\* loadCredentials has returned null for a file that holds pieces of two
\* saves
C13_Witness ==
    \E c \in Callers :
        /\ callers[c].outcome = "loaded"
        /\ callers[c].value = Null
        /\ file # NoFile
        /\ \E i, j \in 1 .. Len(file) : file[i].by # file[j].by

\* C17: getValidAccessToken never raises: for every stored state and every
\* outcome of the exchange call and of the credential save it returns a
\* token string or null.
C17_TokenCallNeverRaises ==
    \A c \in Callers :
        /\ callers[c].pc # "raised"
        /\ callers[c].pc = "returned"
           => \/ callers[c].result = NoToken
              \/ \E d \in Callers :
                    \E k \in 1 .. callers[d].calls :
                        callers[c].result = CopilotToken(d, k)

\* one call has returned null after the exchange threw, another after the
\* credential save threw
C17_Witness ==
    \E c, d \in Callers :
        /\ callers[c].pc = "returned"
        /\ callers[c].outcome = "threw"
        /\ callers[c].result = NoToken
        /\ callers[d].pc = "returned"
        /\ callers[d].outcome = "save_failed"
        /\ callers[d].result = NoToken

----------------------------------------------------------------------------
(* triggerOAuthFlow and the ways the device flow ends *)

Emitted(f, event) == \E i \in 1 .. Len(f.events) : f.events[i] = event

LastEmitted(f) == f.events[Len(f.events)]

\* C14: triggerOAuthFlow returns true if and only if the device flow ended
\* with 'complete'; for every other terminal state and for an exception it
\* returns false.
C14_TriggerTrueIffComplete ==
    flow.pc \in {"returned", "threw"}
    => /\ flow.trigger <=> (flow.pc = "returned" /\ flow.result = "complete")
       /\ (flow.pc = "threw"
           \/ flow.result \in {"timeout", "cancelled", "rate_limited", "failed"})
          => flow.trigger = FALSE

\* a flow has ended with 'rate_limited' and triggerOAuthFlow returned false
C14_Witness ==
    /\ flow.pc = "returned"
    /\ flow.result = "rate_limited"
    /\ flow.trigger = FALSE

C16_ExceptionsFail ==
    /\ flow.pc # "threw"
    /\ (/\ flow.pc = "returned"
        /\ flow.thrown # "none" \/ flow.openThrew
        /\ flow.result # "rate_limited")
       => /\ flow.result = "failed"
          /\ Emitted(flow, "auth_error") \/ Emitted(flow, "progress:error")

\* C16, amended: no exception escapes the flow; an exception of the
\* device-code request gives 'failed' and the AuthError event; an exception
\* of a poll or of the credential save that is not classified as rate
\* limiting gives 'failed' and an AuthProgress 'error' event; an exception of
\* the browser launch is caught and the flow goes on.
C16_ExceptionsHandled ==
    /\ flow.pc # "threw"
    /\ (flow.pc = "returned" /\ flow.thrown = "device")
       => /\ flow.result = "failed"
          /\ LastEmitted(flow) = "auth_error"
    /\ (/\ flow.pc = "returned"
        /\ flow.thrown \in {"poll", "save"}
        /\ flow.result # "rate_limited")
       => /\ flow.result = "failed"
          /\ LastEmitted(flow) = "progress:error"
    /\ (flow.pc = "returned" /\ flow.thrown = "none")
       => flow.result \in {"complete", "timeout", "failed"}

\* the browser launch threw, the flow went on, and the credential save then
\* threw
C16_Witness ==
    /\ flow.pc = "returned"
    /\ flow.openThrew
    /\ flow.thrown = "save"
    /\ flow.result = "failed"

----------------------------------------------------------------------------
(* The stream decoder *)

\* the text of the whole body, decoded at once
WholeText(s) == Decode(FALSE, s.whole).text

\* the lines of a text that end with a line feed
CompleteLines(text) ==
    LET lines == Split(text) IN SubSeq(lines, 1, Len(lines) - 1)

DoneLine == DataPrefix \o DoneData

HasDoneLine(lines) == \E i \in 1 .. Len(lines) : lines[i] = DoneLine

\* the lines up to the first sentinel line, or all of them
UpToSentinel(lines) ==
    IF HasDoneLine(lines)
    THEN SubSeq(lines, 1, CHOOSE i \in 1 .. Len(lines) :
                            /\ lines[i] = DoneLine
                            /\ \A j \in 1 .. i - 1 : lines[j] # DoneLine)
    ELSE lines

PayloadOf(line) == SubSeq(line, Len(DataPrefix) + 1, Len(line))

\* a line that carries a well-formed chunk with some content
IsContentFrame(line) ==
    /\ StartsWith(line, DataPrefix)
    /\ PayloadOf(line) # DoneData
    /\ JsonWellFormed(PayloadOf(line))
    /\ DeltaContent(PayloadOf(line)) # <<>>

\* a data line whose payload is not well-formed JSON
IsMalformedFrame(line) ==
    /\ StartsWith(line, DataPrefix)
    /\ PayloadOf(line) # DoneData
    /\ ~JsonWellFormed(PayloadOf(line))

\* the contents of the content frames among the lines, in order
TextsOf(lines) ==
    LET frames == SelectSeq(lines, IsContentFrame)
    IN  [i \in 1 .. Len(frames) |-> DeltaContent(PayloadOf(frames[i]))]

\* C18: what the stream decoder yields depends only on the concatenation of
\* the bytes read, not on how they are split across reads: it is the
\* contents, in input order, of the frames of the whole body up to the
\* sentinel; 'data: {..content:"hi"..}\n\ndata: [DONE]\n\n' yields exactly
\* one chunk with text "hi" and then ends.
C18_SplitIndependent ==
    stream.pc = "done"
    => /\ stream.yielded
            = TextsOf(UpToSentinel(CompleteLines(WholeText(stream))))
       /\ stream.whole = Frame(Chunk(<<"h", "i">>)) \o <<NL>>
                            \o Frame(DoneData) \o <<NL>>
          => stream.yielded = << <<"h", "i">> >>

\* the example body, delivered in two reads, has been decoded to its end
C18_Witness ==
    /\ stream.pc = "done"
    /\ stream.chunks = 2
    /\ stream.whole = Frame(Chunk(<<"h", "i">>)) \o <<NL>>
                         \o Frame(DoneData) \o <<NL>>
    /\ stream.yielded = << <<"h", "i">> >>

\* C19: once a complete line 'data: [DONE]' has been decoded the stream
\* decoder yields nothing more, reads no more, and the reader is released;
\* the reader is released as well when the stream ends without a sentinel
\* or a read fails.
C19_SentinelEndsStream ==
    [][/\ HasDoneLine(stream'.processed)
          => /\ stream'.pc = "done"
             /\ stream'.processed[Len(stream'.processed)] = DoneLine
       /\ HasDoneLine(stream.processed) => stream' = stream
       /\ stream'.pc \in {"done", "threw"}
          <=> (stream'.released /\ stream'.releases = 1)]_vars

\* the sentinel has ended the stream with a frame after it left unread
C19_Witness ==
    /\ stream.pc = "done"
    /\ HasDoneLine(stream.processed)
    /\ stream.released
    /\ stream.input # <<>>
    /\ \E i \in 1 .. Len(CompleteLines(WholeText(stream))) :
          /\ i > Len(stream.processed)
          /\ IsContentFrame(CompleteLines(WholeText(stream))[i])

\* C20: a data payload that is not well-formed JSON is skipped without
\* ending the stream: every well-formed frame before and after it, and
\* before the sentinel, is still yielded, in order.
C20_MalformedSkipped ==
    /\ stream.yielded = TextsOf(stream.processed)
    /\ stream.pc = "threw" => stream.readFailed
    /\ (stream.pc = "done" /\ ~HasDoneLine(stream.processed))
       => stream.processed = CompleteLines(WholeText(stream))

\* a frame has been yielded after a malformed one was skipped
C20_Witness ==
    \E i, j \in 1 .. Len(stream.processed) :
        /\ i < j
        /\ IsMalformedFrame(stream.processed[i])
        /\ IsContentFrame(stream.processed[j])
        /\ Len(stream.yielded) = 2

\* a well-formed chunk with no first choice, or whose delta has no text
IsEmptyFrame(line) ==
    /\ StartsWith(line, DataPrefix)
    /\ PayloadOf(line) # DoneData
    /\ JsonWellFormed(PayloadOf(line))
    /\ DeltaContent(PayloadOf(line)) = <<>>

EmptyFrames(lines) == Len(SelectSeq(lines, IsEmptyFrame))

\* C21: a stream chunk whose first choice is absent or whose delta carries
\* no text (role-only or keep-alive frame) converts to null and is never
\* yielded: every response the stream yields has a non-empty text part, and
\* every data line the decoder has been through was either yielded, passed
\* over as such a chunk, skipped as malformed, or the sentinel.
C21_EmptyChunksSuppressed ==
    /\ \A i \in 1 .. Len(stream.yielded) : stream.yielded[i] # <<>>
    /\ Len(stream.yielded) + EmptyFrames(stream.processed)
          + Len(SelectSeq(stream.processed, IsMalformedFrame))
          + Len(SelectSeq(stream.processed, LAMBDA l : l = DoneLine))
       = Len(SelectSeq(stream.processed,
                       LAMBDA l : StartsWith(l, DataPrefix)))

\* a role-only frame and a frame with empty content were passed over, and
\* the frame after them was yielded
C21_Witness ==
    /\ EmptyFrames(stream.processed) = 2
    /\ \E i \in 1 .. Len(stream.processed) :
          PayloadOf(stream.processed[i]) = <<RoleOnly>>
    /\ stream.yielded = << <<"a">> >>

----------------------------------------------------------------------------
(* The content generator *)

GenEnded == gen.pc \in {"returned", "threw"}

\* C22: if no access token is available, generateContent rejects with the
\* error 'GitHub Copilot authentication required. Please authenticate with
\* GitHub Copilot first.' and issues no chat-completions call.
C22_NoTokenRejects ==
    (~gen.streaming /\ gen.firstToken = NoToken)
    => /\ gen.requests = <<>>
       /\ GenEnded => /\ gen.pc = "threw"
                       /\ gen.message = AuthRequiredMessage

\* C23: when a token is available (getValidAccessToken answers the call's
\* first request for one with a token), each generateContent call and each
\* generateContentStream call invokes getValidAccessToken exactly once, then
\* issues exactly one chat-completions request, and that request carries
\* 'Authorization: Bearer <the token just obtained>'.
C23_OneTokenOneRequest ==
    /\ gen.requests # <<>>
       => /\ callers[GenCaller].pc = "returned"
          /\ callers[GenCaller].calls = gen.tokenCalls
    /\ gen.firstToken # NoToken
       => /\ gen.tokenCalls = 1
          /\ callers[GenCaller].calls = 1
          /\ gen.oauthFlows = 0
          /\ Len(gen.requests) = 1
          /\ gen.requests[1].authorization
               = <<"Bearer ", callers[GenCaller].result>>

\* a generateContentStream call has returned its generator after sending
\* the request with a token the client had just refreshed
C23_Witness ==
    /\ gen.pc = "returned"
    /\ gen.streaming
    /\ gen.firstToken # NoToken
    /\ callers[GenCaller].outcome = "refreshed"
    /\ Len(gen.requests) = 1

\* the response of the backend that generateContent converted itself
Converted == gen.generator = "fetch" /\ gen.backend # NoBackendResponse

\* C24: toGenericResponse (convertToGeminiResponse) fails with an error
\* whenever the backend response has zero choices, and otherwise builds the
\* response from the first choice only.
C24_FirstChoiceOnly ==
    Converted
    => IF gen.backend.choices = <<>>
       THEN /\ gen.pc = "threw"
            /\ gen.message = NoChoicesMessage
            /\ gen.result = NoResponse
       ELSE /\ gen.pc = "returned"
            /\ Len(gen.result.candidates) = 1
            /\ LET first == gen.backend.choices[1]
                   candidate == gen.result.candidates[1]
               IN  /\ candidate.index = first.index
                   /\ candidate.finishReason
                        = mapFinishReason(first.finish_reason)
                   /\ candidate.parts
                        = IF first.message.content = <<>> THEN <<>>
                          ELSE <<first.message.content>>

\* a response with two choices was converted: one candidate, the first's
C24_Witness ==
    /\ Converted
    /\ gen.pc = "returned"
    /\ Len(gen.backend.choices) = 2
    /\ gen.backend.choices[1].message.content = <<"Bye">>
    /\ gen.result.candidates[1].parts = << <<"Bye">> >>
    /\ gen.result.candidates[1].finishReason = "SAFETY"

\* the messages of the request a fetch-based call has sent
SentMessages == gen.requests[1].body.messages

Sent == gen.generator = "fetch" /\ gen.requests # <<>>

RECURSIVE Concatenated(_)
\* the text parts of a turn one after the other, a placeholder naming the
\* media type in the place of every inline binary part
Concatenated(parts) ==
    IF parts = <<>> THEN <<>>
    ELSE LET part == Head(parts)
         IN  (CASE part.kind = "text" -> part.text
                [] part.kind = "inlineData" ->
                       <<"[Image data: ", part.mimeType, "]">>
                [] OTHER -> <<>>)
             \o Concatenated(Tail(parts))

\* the message of a turn
MessageOfTurn(content) ==
    IF content.kind = "string" THEN [role |-> "user", content |-> content.text]
    ELSE [role |-> IF content.role = "user" THEN "user" ELSE "assistant",
          content |-> Concatenated(content.parts)]

\* a turn with nothing but white space in its text
IsBlankTurn(content) ==
    /\ content.kind = "content"
    /\ \A i \in 1 .. Len(Concatenated(content.parts)) :
          Concatenated(content.parts)[i] \in {" ", "\n", "\t", "\r"}

\* C25 as stated: buildRequest (convertToOpenAIMessages) turns each turn of
\* the request into one message, in turn order, whose content is the
\* concatenation of the turn's text parts with every inline binary part
\* replaced by a placeholder naming its media type, and whose role is 'user'
\* when the turn's role is user and 'assistant' for any other role.
C25_EachTurnOneMessage ==
    Sent
    => /\ Len(SentMessages) = Len(gen.request.contents)
       /\ \A i \in 1 .. Len(SentMessages) :
             SentMessages[i] = MessageOfTurn(gen.request.contents[i])

\* C25, amended: convertToOpenAIMessages turns each turn whose flattened
\* text is not blank into one message, in turn order, with that content and
\* role; a turn whose text is empty or white space yields no message.
C25_NonBlankTurnsOneMessage ==
    Sent
    => LET turns == SelectSeq(gen.request.contents,
                              LAMBDA c : ~IsBlankTurn(c))
       IN  /\ Len(SentMessages) = Len(turns)
           /\ \A i \in 1 .. Len(turns) :
                 SentMessages[i] = MessageOfTurn(turns[i])

\* a request of three turns, the second with a function call only, was sent
\* with two messages
C25_Witness ==
    /\ Sent
    /\ Len(gen.request.contents) = 3
    /\ IsBlankTurn(gen.request.contents[2])
    /\ SentMessages = <<[role |-> "user", content |-> <<"a">>],
                        [role |-> "user", content |-> <<"b">>]>>

\* what the claim says the body carries for a knob
Carried(knob, default) ==
    IF ConfigKnob(gen.request, knob).set
    THEN ConfigKnob(gen.request, knob).value
    ELSE default

\* C26: for each sampling knob (max output tokens, temperature, top-p), the
\* request body carries the caller's value unchanged whenever the caller set
\* one (including the value 0), and carries the default (4096, 0.7, 1.0
\* respectively) only when the knob is unset.
C26_KnobsCarried ==
    Sent
    => LET body == gen.requests[1].body
       IN  /\ body.max_tokens = Carried("maxOutputTokens", DefaultMaxTokens)
           /\ body.temperature = Carried("temperature", DefaultTemperatureTenths)
           /\ body.top_p = Carried("topP", DefaultTopPTenths)

\* the text of the candidate of a response
ResponseText(response) ==
    IF response.candidates[1].parts = <<>> THEN <<>>
    ELSE response.candidates[1].parts[1]

\* C27 as stated: every response produced by toGenericResponse carries the
\* backend's message text unchanged and usage counters that are non-negative
\* and satisfy totalTokenCount = promptTokenCount + candidatesTokenCount.
C27_UsageAddsUp ==
    (Converted /\ gen.pc = "returned")
    => LET usage == gen.result.usageMetadata
       IN  /\ ResponseText(gen.result) = gen.backend.choices[1].message.content
           /\ usage.promptTokenCount >= 0
           /\ usage.candidatesTokenCount >= 0
           /\ usage.totalTokenCount
                = usage.promptTokenCount + usage.candidatesTokenCount

\* C27, amended: every response produced by convertToGeminiResponse carries
\* the backend's message text unchanged and the backend's three usage
\* counters as they were received; the total is the sum of the two others
\* exactly when the backend's total is.
C27_UsageCopied ==
    (Converted /\ gen.pc = "returned")
    => LET usage == gen.result.usageMetadata
       IN  /\ ResponseText(gen.result) = gen.backend.choices[1].message.content
           /\ usage.promptTokenCount = gen.backend.usage.prompt_tokens
           /\ usage.candidatesTokenCount = gen.backend.usage.completion_tokens
           /\ usage.totalTokenCount = gen.backend.usage.total_tokens

\* a response whose total is not the sum of its two other counters was
\* converted
C27_Witness ==
    /\ Converted
    /\ gen.pc = "returned"
    /\ ResponseText(gen.result) = <<"Hello">>
    /\ gen.backend.usage.total_tokens
         # gen.backend.usage.prompt_tokens + gen.backend.usage.completion_tokens
    /\ gen.result.usageMetadata.totalTokenCount = 3

----------------------------------------------------------------------------
(* The device flow: what follows a cancellation, the deadline, a refusal *)

\* the events the step adds to those the flow has emitted
NewEvents ==
    {flow'.events[i] : i \in Len(flow.events) + 1 .. Len(flow'.events)}

\* the flow goes on as the same invocation
SameFlow == flowRuns' = flowRuns

\* C28: once a flow has been cancelled or its deadline timer has fired, the
\* result of a poll HTTP call that was in flight is discarded: no credential
\* record is written by that flow afterwards and no success or complete
\* event is emitted afterwards.
C28_InFlightPollDiscarded ==
    [][(SameFlow /\ (flow.cancelSeen \/ flow.firedInFlight))
       => /\ file' = file
          /\ NewEvents \cap {"progress:success", "complete"} = {}]_vars

\* C29: per flow invocation a subscriber observes at most one terminal
\* signal, the one that fired first: once a 'timeout' progress event has been
\* emitted, no 'success' progress event, AuthComplete event or second
\* 'timeout' event is emitted by that flow, and after the flow has returned
\* it emits no further event.
C29_OneTerminalSignal ==
    [][SameFlow
       => /\ Emitted(flow, "progress:timeout")
             => NewEvents \cap {"progress:success", "complete",
                                "progress:timeout"} = {}
          /\ flow.pc = "returned" => flow'.events = flow.events]_vars

\* C30: a poll attempt that is refused because of rate limiting (the token
\* endpoint's rate-limit error) ends the flow with 'rate_limited' and never
\* with 'failed'; every other poll failure ends it with 'failed'.
C30_RateLimitClassified ==
    flow.pc = "returned"
    => /\ flow.lastPoll = "rate_limit" => flow.result = "rate_limited"
       /\ (flow.lastPoll = "failure" \/ flow.thrown = "save")
          => flow.result = "failed"

\* C31: if the device-code request fails, the flow ends with 'failed'
\* having emitted an error event, without emitting a
\* device-authorization-ready (AuthUri) event, without arming the deadline
\* timer, without any poll call and without writing credentials.
C31_DeviceCodeFailure ==
    [][flow'.thrown = "device"
       => /\ flow'.pc = "returned"
          /\ flow'.result = "failed"
          /\ flow'.events = <<"auth_error">>
          /\ ~flow'.timerSet /\ ~flow'.timerArmed
          /\ flow'.polls = 0
          /\ flow'.toSave = Null
          /\ file' = file]_vars

\* a flow whose device-code request failed has returned
C31_Witness ==
    /\ flow.thrown = "device"
    /\ flow.pc = "returned"
    /\ flow.result = "failed"
    /\ Emitted(flow, "auth_error")

\* how many times the flow has emitted the event
Count(f, event) == Len(SelectSeq(f.events, LAMBDA e : e = event))

\* a poll call of the flow has not returned yet
PollInFlight(f) == f.pc \in {"poll_http", "save_open", "save_write"}

\* C32: within one flow run the steps happen strictly in order: the
\* device-code request completes, then the AuthUri event is emitted exactly
\* once, then the deadline timer is armed, then polls run; each poll call
\* starts only after the previous poll call has returned, so at most one poll
\* of a flow is in flight at any time.
C32_StepsInOrder ==
    [][SameFlow
       => /\ "auth_uri" \in NewEvents
             => flow.pc = "device_http" /\ flow.events = <<>>
          /\ Count(flow', "auth_uri") <= 1
          /\ (flow'.timerSet /\ ~flow.timerSet)
             => /\ flow.pc \in {"device_http", "open"}
                /\ flow'.events[1] = "auth_uri"
                /\ flow.polls = 0
          /\ flow'.polls # flow.polls
             => /\ flow'.polls = flow.polls + 1
                /\ ~PollInFlight(flow)
                /\ flow'.pc = "poll_http"
                /\ flow'.timerSet
                /\ Count(flow', "auth_uri") = 1
                /\ Count(flow', "progress:polling") = flow'.polls]_vars

\* the second poll of a flow is in flight, after the browser was opened
C32_Witness ==
    /\ flow.pc = "poll_http"
    /\ flow.polls = 2
    /\ ~flow.suppressed
    /\ flow.timerSet
    /\ flow.events = <<"auth_uri", "progress:polling", "progress:polling">>

FlowResults == {"complete", "timeout", "cancelled", "rate_limited", "failed"}

\* C33: every flow invocation eventually returns one of 'complete',
\* 'timeout', 'cancelled', 'rate_limited', 'failed', provided each HTTP call
\* and each interval sleep eventually returns; it cannot poll forever.
C33_FlowReturns ==
    (flow.pc \notin {"idle", "returned"})
        ~> (flow.pc = "returned" /\ flow.result \in FlowResults)

\* a flow started late has used up its attempts, through sleeps that outlast
\* the ticks of the clock, and returned
C33_Witness ==
    /\ flow.pc = "returned"
    /\ flow.result = "timeout"
    /\ flow.polls = 4
    /\ flow.attempts = flow.maxAttempts
    /\ now > MaxTicks * TickMs

\* no getValidAccessToken call is between its load and its return
CallersAtRest == \A c \in Callers : callers[c].pc \in {"idle", "returned"}

\* C34: under any interleaving of a getValidAccessToken refresh with a
\* device-flow completion, the stored primary token after both have finished
\* is the one written by the most recent device-flow completion: a refresh
\* that loaded the record before the completion never writes the older
\* primary token back over the newer one.
C34_NewestPrimaryKept ==
    (/\ flow.pc = "returned"
     /\ flow.result = "complete"
     /\ CallersAtRest
     /\ HasAccessToken(loadCredentials(file)))
        => loadCredentials(file).access_token = GitHubToken(flowRuns)

\* C35: the credential deletion that getValidAccessToken performs after a 401
\* only ever removes a record holding the primary token that was rejected:
\* under any interleaving with another caller or a device flow that has
\* meanwhile saved a record with a different primary token, that newer record
\* is still stored afterwards.
C35_DeletionSparesNewerRecord ==
    [][\A c \in Callers :
          (/\ callers[c].pc = "unlink"
           /\ callers[c].outcome = "401"
           /\ callers'[c].pc = "returned"
           /\ HasAccessToken(loadCredentials(file))
           /\ loadCredentials(file).access_token
                 # callers[c].creds.access_token)
             => file' = file]_vars

\* C36: for one generateContent or generateContentStream request, the
\* content generator calls triggerOAuthFlow at most once and
\* getValidAccessToken at most twice; it triggers the flow only after a first
\* getValidAccessToken returned null, re-reads the token only if the flow
\* returned true, and makes the chat-completions call only with a non-null
\* token.
C36_TokenRetryBounded ==
    /\ gen.oauthFlows <= 1
    /\ gen.tokenCalls <= 2
    /\ flowRuns <= gen.oauthFlows
    /\ callers[GenCaller].calls <= gen.tokenCalls
    /\ gen.oauthFlows = 1
          => /\ gen.tokenCalls >= 1
             /\ callers[GenCaller].calls >= 1
             /\ gen.firstToken = NoToken
    /\ gen.tokenCalls = 2
          => /\ gen.oauthFlows = 1
             /\ flow.pc \in {"returned", "threw"}
             /\ flow.trigger
    /\ Len(gen.requests) <= 1
    /\ \A i \in 1 .. Len(gen.requests) :
          /\ gen.token # NoToken
          /\ gen.requests[i].authorization = AuthorizationHeader(gen.token)

\* the request is sent with the token read again after the flow that a null
\* first token triggered
C36_Witness ==
    /\ gen.generator = "retry"
    /\ gen.pc = "fetch"
    /\ gen.firstToken = NoToken
    /\ gen.oauthFlows = 1
    /\ gen.tokenCalls = 2
    /\ Len(gen.requests) = 1

\* the bytes of the body the reader has delivered
BytesRead(s) == SubSeq(s.whole, 1, Len(s.whole) - Len(s.input))

\* C37: the stream decoder yields a chunk for a data frame only after that
\* frame's terminating newline has been read: text held in the carry-over
\* buffer when the byte stream ends (a final data line with no newline)
\* produces no chunk, and no frame is ever yielded twice.
C37_OnlyTerminatedFramesYield ==
    LET complete == CompleteLines(WholeText(stream))
    IN  /\ Len(stream.processed)
              <= Len(SelectSeq(BytesRead(stream), LAMBDA b : b = NL))
        /\ Len(stream.processed) <= Len(complete)
        /\ stream.processed = SubSeq(complete, 1, Len(stream.processed))
        /\ stream.yielded = TextsOf(stream.processed)
        /\ Len(stream.yielded) <= Len(TextsOf(complete))

\* the body has ended with a well-formed data line, unterminated, in the
\* buffer, and nothing was yielded for it
C37_Witness ==
    /\ stream.pc = "done"
    /\ stream.input = <<>>
    /\ stream.buffer = DataPrefix \o Chunk(<<"b">>)
    /\ IsContentFrame(stream.buffer)
    /\ stream.yielded = << <<TwoByteChar>> >>

\* C38: when the chat-completions endpoint answers HTTP 401 to
\* generateContent or generateContentStream, the stored credential record is
\* deleted before the call raises an authentication-expired error, so the
\* next getValidAccessToken returns null; for every other non-success status
\* the stored record is unchanged and the raised error carries the status and
\* response text.
C38_UnauthorizedClearsRecord ==
    [][(gen.generator = "retry" /\ gen'.status # 0)
       => /\ gen'.status = 401
             => /\ gen'.pc \in {"clear", "threw"}
                /\ gen'.pc = "clear" => gen.pc = "fetch" /\ file' = file
                /\ gen'.pc = "threw"
                   => /\ gen'.outcome = "expired"
                      /\ gen'.message = "GitHub Copilot authentication has expired. Please authenticate with GitHub Copilot again."
                      /\ file' = NoFile
                      /\ ~HasAccessToken(loadCredentials(file'))
          /\ gen'.status # 401
             => /\ gen'.pc = "threw"
                /\ gen'.outcome = "api_error"
                /\ file' = file
                /\ gen'.message =
                      "GitHub Copilot API error: " \o ToString(gen'.status)
                         \o " " \o StatusText(gen'.status)[1]
                         \o " - " \o gen'.errorText]_vars

\* a request sent with a stored token was answered 401: the record is gone
\* and the call has raised
C38_Witness ==
    /\ gen.generator = "retry"
    /\ gen.pc = "threw"
    /\ gen.outcome = "expired"
    /\ gen.status = 401
    /\ gen.firstToken # NoToken
    /\ gen.unlinks = 1
    /\ file = NoFile

\* the client's one getValidAccessToken call has returned a token
ClientGotToken ==
    /\ gen.tokenCalls = 1
    /\ callers[GenCaller].calls = 1
    /\ callers[GenCaller].pc = "returned"
    /\ callers[GenCaller].result # NoToken

\* C39: getGitHubCopilotOAuthClient starts no device flow when stored
\* credentials yield a token from getValidAccessToken; otherwise it runs
\* exactly one device flow and returns the client only if the flow result is
\* 'complete', raising an error specific to the result ('timeout',
\* 'cancelled', 'rate_limited', 'failed') in every other case.
C39_ClientFlowOnlyWithoutToken ==
    /\ flowRuns <= 1
    /\ gen.tokenCalls <= 1
    /\ ClientGotToken
          => /\ flowRuns = 0
             /\ gen.pc \in {"token", "returned"}
    /\ GenEnded
          => /\ ~ClientGotToken
                => /\ flowRuns = 1
                   /\ flow.pc = "returned"
                   /\ flow.result \in FlowResults
                   /\ gen.pc = "returned" <=> flow.result = "complete"
             /\ gen.pc = "threw"
                => /\ gen.outcome = flow.result
                   /\ gen.message = ClientErrorMessage(flow.result)
                   /\ \A other \in FlowResults \ {"complete", flow.result} :
                         gen.message # ClientErrorMessage(other)

\* a stored record gave no token, and the one flow that followed was refused
\* for too many requests
C39_Witness ==
    /\ gen.generator = "client"
    /\ gen.pc = "threw"
    /\ gen.tokenCalls = 1
    /\ flowRuns = 1
    /\ flow.result = "rate_limited"
    /\ gen.message = "Too many requests for GitHub Copilot OAuth authentication, please try again later."

\* C40: after cancelGitHubCopilotAuth the UI auth state is {not
\* authenticating, deviceAuth null, status 'idle', message null} and stays
\* so until a new authentication is started: no event emitted afterwards by
\* the flow that was cancelled moves the state out of 'idle'.
C40_CancelledStaysIdle ==
    flow.cancelSeen => AuthStateSinceCancel(flow) = IdleAuthState

====
